---- MODULE Spec2Model ----
(***************************************************************************)
(* Model of code/deploy/build_tensorrt_engine.py: the loader that turns a  *)
(* PyTorch ensemble checkpoint into TensorRT weight maps, and the builder  *)
(* that assembles the ensemble network (embedding, transformer layers,     *)
(* pooler, ensemble head), registers optimization profiles, calls the      *)
(* TensorRT builder and writes the serialized engine.                      *)
(*                                                                         *)
(* Names are sequences of tokens: a PyTorch key split at ".", a TF-style   *)
(* name split at "/", a TensorRT weight name split at "_" boundaries the   *)
(* loader itself introduces.  Join gives the string the code compares.     *)
(* Arrays are records [shape, data] with data in C order; values are       *)
(* integers standing for float32 values (the loader only moves data).      *)
(***************************************************************************)
EXTENDS Integers, Sequences, FiniteSets, TLC

(***************************************************************************)
(* Bounds of the model.                                                    *)
(***************************************************************************)
MaxBatch == 3        \* target batch sizes are drawn from 1..MaxBatch
MaxBatchCount == 2   \* number of -b options on the command line
MaxModels == 2       \* submodels of the ensemble
MaxLayers == 2       \* num_hidden_layers of a submodel
MaxSeed == 2         \* base value of the checkpoint's tensor contents
MaxSeq == 3          \* sequence length of the tensors fed to the mean pooling
MaxValue == 2        \* hidden values fed to the mean pooling are 1..MaxValue

(***************************************************************************)
(* Module-level constants of the program.                                  *)
(***************************************************************************)
WQ == <<"self", "query", "kernel">>
BQ == <<"self", "query", "bias">>
WK == <<"self", "key", "kernel">>
BK == <<"self", "key", "bias">>
WV == <<"self", "value", "kernel">>
BV == <<"self", "value", "bias">>
WQKV == <<"self", "qkv", "kernel">>
BQKV == <<"self", "qkv", "bias">>
W_AOUT == <<"attention", "output", "dense", "kernel">>
B_AOUT == <<"attention", "output", "dense", "bias">>
W_MID == <<"intermediate", "dense", "kernel">>
B_MID == <<"intermediate", "dense", "bias">>
W_LOUT == <<"output", "dense", "kernel">>
B_LOUT == <<"output", "dense", "bias">>

(***************************************************************************)
(* The installed TensorRT Python binding.  "legacy": trt.Weights takes the *)
(* buffer pointer and element count of any array, and a profile accepts    *)
(* any shapes.  "checked": trt.Weights raises ValueError for an array that *)
(* is not C contiguous, and IOptimizationProfile.set_shape raises          *)
(* RuntimeError for shapes that are not min <= opt <= max.                 *)
(***************************************************************************)
VARIABLE trt_api

(***************************************************************************)
(* Small sequence helpers.                                                 *)
(***************************************************************************)
RECURSIVE Join(_)
\* "_".join(toks)
Join(toks) ==
    IF toks = <<>> THEN ""
    ELSE IF Len(toks) = 1 THEN toks[1]
    ELSE toks[1] \o "_" \o Join(Tail(toks))

\* s[a..b] as a sequence, empty when a > b
Slice(s, a, b) == IF b >= a THEN SubSeq(s, a, b) ELSE <<>>

\* the sequence f as an explicit tuple
Tuple(f) == f \o <<>>

\* positions at which the token sequence pat occurs in toks
Occurrences(toks, pat) ==
    {p \in 1..Len(toks) :
        /\ p + Len(pat) - 1 <= Len(toks)
        /\ \A j \in 1..Len(pat) : toks[p + j - 1] = pat[j]}

\* str.find(pat) != -1
Contains(toks, pat) == Occurrences(toks, pat) # {}

\* tokens before the first occurrence: key[:key.find(pat)]
Before(toks, pat) ==
    LET p == CHOOSE q \in Occurrences(toks, pat) :
                 \A r \in Occurrences(toks, pat) : q <= r
    IN  Slice(toks, 1, p - 1)

RECURSIVE ProdFrom(_, _)
\* product of shape[k..]
ProdFrom(shape, k) ==
    IF k > Len(shape) THEN 1 ELSE shape[k] * ProdFrom(shape, k + 1)

Size(shape) == ProdFrom(shape, 1)

(***************************************************************************)
(* numpy arrays: [shape, data], data in C (row-major) order.               *)
(***************************************************************************)
\* multi-index (0-based components) of flat position p (0-based)
Unravel(p, shape) ==
    [k \in 1..Len(shape) |-> (p \div ProdFrom(shape, k + 1)) % shape[k]]

RECURSIVE RavelFrom(_, _, _)
RavelFrom(idx, shape, k) ==
    IF k > Len(shape) THEN 0
    ELSE idx[k] * ProdFrom(shape, k + 1) + RavelFrom(idx, shape, k + 1)

\* flat position (0-based) of a multi-index
Ravel(idx, shape) == RavelFrom(idx, shape, 1)

\* numpy.transpose(a, axes): out.shape[i] = a.shape[axes[i]] and
\* out[o] = a[s] with s[axes[i]] = o[i]  (axes 1-based here)
TransposeAxes(a, axes) ==
    LET n == Len(a.shape)
        oshape == [i \in 1..n |-> a.shape[axes[i]]]
        src(o) == [k \in 1..n |-> o[CHOOSE i \in 1..n : axes[i] = k]]
    IN  [shape |-> Tuple(oshape),
         data |-> Tuple([p \in 1..Len(a.data) |->
                     a.data[Ravel(src(Unravel(p - 1, oshape)), a.shape) + 1]])]

\* numpy.transpose(a) and a.T: all axes reversed
NpTranspose(a) ==
    LET n == Len(a.shape) IN TransposeAxes(a, [i \in 1..n |-> n + 1 - i])

\* a.reshape(shape) of a contiguous array; the caller checks the size
Reshape(a, shape) == [shape |-> shape, data |-> a.data]

\* a.flatten()
Flatten(a) == [shape |-> <<Len(a.data)>>, data |-> a.data]

\* trt.Weights(a): a flat buffer holding the array's elements in C order
Weights(a) == Flatten(a)

(***************************************************************************)
(* Python dicts keep insertion order: a dict is a sequence of entries      *)
(* [k, v]; assigning an existing key replaces the value in place.          *)
(***************************************************************************)
DictKeys(d) == {d[i].k : i \in 1..Len(d)}

DictHas(d, key) == \E i \in 1..Len(d) : d[i].k = key

DictGet(d, key) == d[CHOOSE i \in 1..Len(d) : d[i].k = key].v

DictSet(d, key, val) ==
    IF DictHas(d, key)
    THEN LET i == CHOOSE j \in 1..Len(d) : d[j].k = key
         IN  Slice(d, 1, i - 1) \o <<[k |-> key, v |-> val]>> \o Slice(d, i + 1, Len(d))
    ELSE Append(d, [k |-> key, v |-> val])

RECURSIVE DictUpdate(_, _)
\* d.update(other)
DictUpdate(d, other) ==
    IF other = <<>> THEN d
    ELSE DictUpdate(DictSet(d, other[1].k, other[1].v), Tail(other))

(***************************************************************************)
(* String order of the TF-style names, as sorted() sees them.  "/" sorts   *)
(* below every character of a token, so comparing the names as strings is  *)
(* comparing their token sequences lexicographically.  TokenOrder lists    *)
(* the tokens in Python string order; "layer_" stands for layer_0..9.      *)
(***************************************************************************)
TokenOrder ==
    <<"LayerNorm", "attention", "bert", "beta", "bias", "classifier", "dense",
      "embeddings", "encoder", "gamma", "intermediate", "kernel", "key",
      "layer_", "output", "pooler", "position_embeddings", "query", "self",
      "token_type_embeddings", "value", "weight", "word_embeddings">>

LayerToken(l) == "layer_" \o ToString(l)

LayerTokenSet == {LayerToken(l) : l \in 0..9}

IsLayerToken(tok) == tok \in LayerTokenSet

\* re.findall("\d+", tok): the digits of a layer token
LayerDigits(tok) == ToString(CHOOSE l \in 0..9 : tok = LayerToken(l))

\* the rank of every known token in Python's string order
TokenRank ==
    [tok \in {TokenOrder[i] : i \in 1..Len(TokenOrder)} \cup LayerTokenSet |->
        IF tok \in LayerTokenSet
        THEN 100 * (CHOOSE i \in 1..Len(TokenOrder) : TokenOrder[i] = "layer_")
             + 1 + (CHOOSE l \in 0..9 : tok = LayerToken(l))
        ELSE 100 * (CHOOSE i \in 1..Len(TokenOrder) : TokenOrder[i] = tok)]

RECURSIVE NameLessFrom(_, _, _)
NameLessFrom(a, b, i) ==
    IF i > Len(a) THEN i <= Len(b)
    ELSE IF i > Len(b) THEN FALSE
    ELSE IF a[i] = b[i] THEN NameLessFrom(a, b, i + 1)
    ELSE TokenRank[a[i]] < TokenRank[b[i]]

\* a < b for two names as Python compares the strings
NameLess(a, b) == NameLessFrom(a, b, 1)

\* sorted(d) for a dict d: its keys in Python's string order.  The keys of
\* a dict are distinct, so a key's place is the number of keys below it.
Sorted(d) ==
    LET n == Len(d)
        below == Tuple([i \in 1..n |->
                     Cardinality({j \in 1..n : NameLess(d[j].k, d[i].k)})])
    IN  Tuple([p \in 1..n |-> d[CHOOSE i \in 1..n : below[i] = p - 1].k])

(***************************************************************************)
(* pn.lower().split("/") followed by "_".join: the TensorRT name's tokens. *)
(* A token that itself holds "_" contributes its parts, so that two names  *)
(* are the same string exactly when they are the same token sequence.      *)
(***************************************************************************)
LowerSplit(tok) ==
    CASE tok = "LayerNorm" -> <<"layernorm">>
      [] tok = "word_embeddings" -> <<"word", "embeddings">>
      [] tok = "position_embeddings" -> <<"position", "embeddings">>
      [] tok = "token_type_embeddings" -> <<"token", "type", "embeddings">>
      [] IsLayerToken(tok) -> <<"layer", LayerDigits(tok)>>
      [] OTHER -> <<tok>>

RECURSIVE TrtTokens(_)
TrtTokens(toks) ==
    IF toks = <<>> THEN <<>> ELSE LowerSplit(toks[1]) \o TrtTokens(Tail(toks))

(***************************************************************************)
(* get_tensor_info: one PyTorch key (split at ".") to                      *)
(* (param_type, TF-style name, value).  exc names the exception the        *)
(* Python code raises instead of returning.                                *)
(***************************************************************************)
IsDigits(tok) == \E n \in 0..9 : tok = ToString(n)

DigitsValue(tok) == CHOOSE n \in 0..9 : tok = ToString(n)

RECURSIVE MergeLayer(_)
\* name.replace('layer/', 'layer_')
MergeLayer(toks) ==
    IF Len(toks) < 2 THEN toks
    ELSE IF toks[1] = "layer"
         THEN MergeLayer(<<"layer_" \o toks[2]>> \o Tail(Tail(toks)))
         ELSE <<toks[1]>> \o MergeLayer(Tail(toks))

RECURSIVE RenameLayerNorm(_)
\* .replace('LayerNorm/weight', 'LayerNorm/gamma').replace('LayerNorm/bias', 'LayerNorm/beta')
RenameLayerNorm(toks) ==
    IF Len(toks) < 2 THEN toks
    ELSE IF toks[1] = "LayerNorm" /\ toks[2] = "weight"
         THEN <<"LayerNorm", "gamma">> \o RenameLayerNorm(Tail(Tail(toks)))
    ELSE IF toks[1] = "LayerNorm" /\ toks[2] = "bias"
         THEN <<"LayerNorm", "beta">> \o RenameLayerNorm(Tail(Tail(toks)))
    ELSE <<toks[1]>> \o RenameLayerNorm(Tail(toks))

\* the embedding_map of get_tensor_info, keys and values split at "/"
embedding_map ==
    <<[k |-> <<"embeddings", "position_embeddings", "weight">>,
       v |-> <<"embeddings", "position_embeddings">>],
      [k |-> <<"embeddings", "word_embeddings", "weight">>,
       v |-> <<"embeddings", "word_embeddings">>],
      [k |-> <<"embeddings", "token_type_embeddings", "weight">>,
       v |-> <<"embeddings", "token_type_embeddings">>],
      [k |-> <<"embeddings", "LayerNorm", "weight">>,
       v |-> <<"embeddings", "LayerNorm", "gamma">>],
      [k |-> <<"embeddings", "LayerNorm", "bias">>,
       v |-> <<"embeddings", "LayerNorm", "beta">>]>>

TensorInfo(exc, param_type, name, value) ==
    [exc |-> exc, param_type |-> param_type, name |-> name, value |-> value]

get_tensor_info(tensor_name, tensor_value) ==
    IF tensor_name[1] = "classifier"
    THEN TensorInfo("none", "classifier", tensor_name, tensor_value)
    ELSE IF Len(tensor_name) < 3
    THEN TensorInfo("IndexError", "", <<>>, tensor_value)
    ELSE
      LET model_id == tensor_name[3]
          name == Slice(tensor_name, 4, Len(tensor_name))
      IN  IF name # <<>> /\ name[1] = "embeddings"
          THEN IF DictHas(embedding_map, name)
               THEN TensorInfo("none", model_id,
                               <<"bert">> \o DictGet(embedding_map, name), tensor_value)
               ELSE TensorInfo("KeyError", model_id, name, tensor_value)
          ELSE IF name # <<>> /\ name[1] = "encoder"
          THEN LET Encoder(renamed) ==
                     IF \E i \in 1..Len(renamed) : renamed[i] = "weight"
                     THEN TensorInfo("none", model_id,
                              <<"bert">> \o [i \in 1..Len(renamed) |->
                                  IF renamed[i] = "weight" THEN "kernel" ELSE renamed[i]],
                              NpTranspose(tensor_value))
                     ELSE TensorInfo("none", model_id, <<"bert">> \o renamed,
                                     tensor_value)
               IN  Encoder(RenameLayerNorm(MergeLayer(name)))
          ELSE IF name # <<>> /\ name[1] = "pooler"
          THEN TensorInfo("none", model_id, <<"bert">> \o name, tensor_value)
          ELSE TensorInfo("UnboundLocalError", model_id, name, tensor_value)

(***************************************************************************)
(* get_tf_tensor_dict: the checkpoint (an ordered dict of PyTorch keys) to *)
(* one ordered dict of TF-style names per submodel id and "classifier".    *)
(* An entry whose get_tensor_info raises is logged and skipped; the        *)
(* assignment into output_dict is outside the try.                         *)
(***************************************************************************)
\* 'models' in k
HoldsModels(key) == \E t \in 1..Len(key) : key[t] = "models"

\* re.findall("\d+", k): the tokens of k that are digits, in order
DigitTokens(key) == SelectSeq(key, IsDigits)

\* the keys for which int(re.findall("\d+", k)[0]) raises IndexError
NoModelId(original_tensor_dict) ==
    \E i \in 1..Len(original_tensor_dict) :
        /\ HoldsModels(original_tensor_dict[i].k)
        /\ DigitTokens(original_tensor_dict[i].k) = <<>>

ModelIdsOf(original_tensor_dict) ==
    {DigitsValue(DigitTokens(original_tensor_dict[i].k)[1]) : i \in
        {j \in 1..Len(original_tensor_dict) :
            /\ HoldsModels(original_tensor_dict[j].k)
            /\ DigitTokens(original_tensor_dict[j].k) # <<>>}}

submodel_nums(original_tensor_dict) ==
    LET ids == ModelIdsOf(original_tensor_dict)
    IN  IF ids = {} THEN 0 ELSE 1 + (CHOOSE m \in ids : \A n \in ids : n <= m)

\* one turn of the loop of lines 141-147; out = [raised, dict, skipped]
ConvertEntry(entry, out) ==
    LET Store(info) ==
            IF info.exc # "none"
            THEN [out EXCEPT !.skipped = Append(@, entry.k)]
            ELSE IF info.param_type \notin DOMAIN out.dict
            THEN [out EXCEPT !.raised = "KeyError"]
            ELSE [out EXCEPT !.dict[info.param_type] =
                      DictSet(@, info.name, info.value)]
    IN  IF out.raised # "none" THEN out
        ELSE Store(get_tensor_info(entry.k, entry.v))

RECURSIVE ConvertEntries(_, _, _, _)
\* the turns lo..hi of the loop, in order (the range is halved to keep the
\* evaluation shallow)
ConvertEntries(original_tensor_dict, lo, hi, out) ==
    IF lo > hi THEN out
    ELSE IF lo = hi THEN ConvertEntry(original_tensor_dict[lo], out)
    ELSE LET mid == (lo + hi) \div 2
             left == ConvertEntries(original_tensor_dict, lo, mid, out)
         IN  IF left.raised # "none" THEN left
             ELSE ConvertEntries(original_tensor_dict, mid + 1, hi, left)

get_tf_tensor_dict(original_tensor_dict) ==
    LET n == submodel_nums(original_tensor_dict)
        ids == {ToString(m) : m \in 0..(n - 1)} \cup {"classifier"}
    IN  IF NoModelId(original_tensor_dict)
        THEN [raised |-> "IndexError", dict |-> <<>>, skipped |-> <<>>]
        ELSE ConvertEntries(original_tensor_dict, 1, Len(original_tensor_dict),
                 [raised |-> "none", dict |-> [t \in ids |-> <<>>], skipped |-> <<>>])

(***************************************************************************)
(* get_submodel_weights: one submodel's TF-style dict to its TensorRT      *)
(* weight map.  Both loops run inside one try whose handler only logs;     *)
(* the update with additional_dict follows the handler.                    *)
(***************************************************************************)
NoError == [exc |-> "none", key |-> <<>>]

Error(exc, key) == [exc |-> exc, key |-> key]

\* "encoder" in pn, "layer" in pn, pn.find("kernel") != -1
HoldsEncoder(pn) == \E i \in 1..Len(pn) : pn[i] = "encoder"
HoldsLayer(pn) == \E i \in 1..Len(pn) : pn[i] = "layer" \/ IsLayerToken(pn[i])
HoldsKernel(pn) == \E i \in 1..Len(pn) : pn[i] = "kernel"

\* (re.findall("\d+", pn))[0] of a TF-style name: the first layer index
LayerTokens(pn) == SelectSeq(pn, IsLayerToken)

\* "l{}_".format(l): the prefix token of layer l
LayerPrefix(l) == "l" \o l

\* one turn of the loop of lines 738-760 for the name pn; out = [err, dict]
NormalizeOne(tensor_dict, pn, out) ==
    IF out.err.exc # "none" THEN out
    ELSE
      LET Put(outname, tensor) ==
              IF HoldsKernel(pn)
              THEN [out EXCEPT !.dict =
                       DictSet(DictSet(@, outname \o <<"notrans">>,
                                       Weights(Flatten(tensor))),
                               outname, Weights(Flatten(NpTranspose(tensor))))]
              ELSE [out EXCEPT !.dict = DictSet(@, outname, Weights(Flatten(tensor)))]
      IN  IF HoldsEncoder(pn) /\ ~HoldsLayer(pn)
          THEN [out EXCEPT !.err = Error("AssertionError", pn)]
          ELSE IF HoldsEncoder(pn) /\ LayerTokens(pn) = <<>>
          THEN [out EXCEPT !.err = Error("IndexError", pn)]
          ELSE Put(IF HoldsEncoder(pn)
                   THEN <<LayerPrefix(LayerDigits(LayerTokens(pn)[1]))>>
                        \o TrtTokens(Slice(pn, 4, Len(pn)))
                   ELSE TrtTokens(pn),
                   DictGet(tensor_dict, pn))

RECURSIVE NormalizeFrom(_, _, _, _, _)
\* the turns lo..hi of that loop, in order
NormalizeFrom(tensor_dict, param_names, lo, hi, out) ==
    IF lo > hi THEN out
    ELSE IF lo = hi THEN NormalizeOne(tensor_dict, param_names[lo], out)
    ELSE LET mid == (lo + hi) \div 2
             left == NormalizeFrom(tensor_dict, param_names, lo, mid, out)
         IN  IF left.err.exc # "none" THEN left
             ELSE NormalizeFrom(tensor_dict, param_names, mid + 1, hi, left)

\* dst[0:n] = src[0:n] for 1-D arrays: the copy, or <<>> when numpy cannot
\* broadcast src[0:n] to n elements (n >= 1)
SliceAssign(src, n) ==
    LET part == Slice(src, 1, IF Len(src) < n THEN Len(src) ELSE n)
    IN  IF Len(part) = n THEN part
        ELSE IF Len(part) = 1 THEN Tuple([i \in 1..n |-> part[1]])
        ELSE <<>>

\* a fusion that swaps the head axes instead of interleaving Q, K and V
FuseKernel_heads(Wall, N, H) ==
    TransposeAxes(Reshape([shape |-> <<Len(Wall)>>, data |-> Wall], <<3, N, H, N, H>>),
                  <<1, 4, 3, 2, 5>>)

\* Wall.reshape((3, N, H, N, H)).transpose((1, 0, 2, 3, 4))
FuseKernel(Wall, N, H) ==
    TransposeAxes(Reshape([shape |-> <<Len(Wall)>>, data |-> Wall], <<3, N, H, N, H>>),
                  <<2, 1, 3, 4, 5>>)

\* Ball.reshape((3, N, H)).transpose((1, 0, 2))
FuseBias(Ball, N, H) ==
    TransposeAxes(Reshape([shape |-> <<Len(Ball)>>, data |-> Ball], <<3, N, H>>),
                  <<2, 1, 3>>)

\* Wall.T is a view of Wall's buffer with the strides reversed; it is C
\* contiguous only when at most one axis is longer than 1
IsContiguous(shape) == Cardinality({i \in 1..Len(shape) : shape[i] > 1}) <= 1

\* trt.Weights(Wall.T) where the binding takes the view's buffer pointer and
\* its element count: the elements of Wall in Wall's own order
WeightsOfBuffer(Wall) == [shape |-> <<Len(Wall.data)>>, data |-> Wall.data]

\* the first of the keys that weights_dict lacks, <<>> when it has them all
RECURSIVE FirstMissing(_, _)
FirstMissing(weights_dict, keys) ==
    IF keys = <<>> THEN <<>>
    ELSE IF ~DictHas(weights_dict, keys[1]) THEN keys[1]
    ELSE FirstMissing(weights_dict, Tail(keys))

\* lines 769-797 for the entry (key, value) that holds BQ
FuseOne(weights_dict, key, value, N, H, additional_dict) ==
    LET hidden_size == Len(value.data)
        prefix == Before(key, BQ)
        missing == FirstMissing(weights_dict,
                       <<prefix \o BK, prefix \o BV, prefix \o WQ, prefix \o WK,
                         prefix \o WV>>)
    IN  IF missing # <<>>
        THEN [err |-> Error("KeyError", missing), dict |-> additional_dict]
        ELSE
          LET mat_size == hidden_size * hidden_size
              q == SliceAssign(DictGet(weights_dict, prefix \o WQ).data, mat_size)
              k == SliceAssign(DictGet(weights_dict, prefix \o WK).data, mat_size)
              v == SliceAssign(DictGet(weights_dict, prefix \o WV).data, mat_size)
              bq == SliceAssign(value.data, hidden_size)
              bk == SliceAssign(DictGet(weights_dict, prefix \o BK).data, hidden_size)
              bv == SliceAssign(DictGet(weights_dict, prefix \o BV).data, hidden_size)
          IN  IF hidden_size = 0 \/ <<>> \in {q, k, v, bq, bk, bv}
                 \/ 3 * mat_size # 3 * N * H * N * H \/ 3 * hidden_size # 3 * N * H
              THEN [err |-> Error("ValueError", key), dict |-> additional_dict]
              ELSE
                LET Store(Wall, two) ==
                      IF IsContiguous(Wall.shape)
                      THEN [err |-> NoError,
                            dict |-> DictSet(two, prefix \o WQKV \o <<"notrans">>,
                                             Weights(NpTranspose(Wall)))]
                      ELSE IF trt_api = "legacy"
                      THEN [err |-> NoError,
                            dict |-> DictSet(two, prefix \o WQKV \o <<"notrans">>,
                                             WeightsOfBuffer(Wall))]
                      ELSE [err |-> Error("ValueError", prefix \o WQKV \o <<"notrans">>),
                            dict |-> two]
                    Fuse(Wall, Ball) ==
                      Store(Wall, DictSet(DictSet(additional_dict,
                                      prefix \o WQKV, Weights(Wall)),
                                      prefix \o BQKV, Weights(Ball)))
                IN  Fuse(FuseKernel(q \o k \o v, N, H), FuseBias(bq \o bk \o bv, N, H))

RECURSIVE FuseFrom(_, _, _, _, _, _)
\* the turns lo..hi of the loop of lines 766-797 over weights_dict's entries
FuseFrom(weights_dict, lo, hi, N, H, out) ==
    IF lo > hi \/ out.err.exc # "none" THEN out
    ELSE IF lo = hi
    THEN IF Contains(weights_dict[lo].k, BQ)
         THEN FuseOne(weights_dict, weights_dict[lo].k, weights_dict[lo].v, N, H,
                      out.dict)
         ELSE out
    ELSE LET mid == (lo + hi) \div 2
             left == FuseFrom(weights_dict, lo, mid, N, H, out)
         IN  IF left.err.exc # "none" THEN left
             ELSE FuseFrom(weights_dict, mid + 1, hi, N, H, left)

\* result: raised is the exception that leaves the function, logged the one
\* the handler swallowed
get_submodel_weights(tensor_dict, config) ==
    LET Update(first, second) ==
            [raised |-> "none", logged |-> second.err,
             dict |-> DictUpdate(first.dict, second.dict)]
        Second(first) ==
            IF first.err.exc # "none"
            THEN \* additional_dict was never bound: line 802 raises
                 [raised |-> "UnboundLocalError", logged |-> first.err,
                  dict |-> first.dict]
            ELSE Update(first, FuseFrom(first.dict, 1, Len(first.dict),
                                   config.num_attention_heads, config.head_size,
                                   [err |-> NoError, dict |-> <<>>]))
        First(param_names) ==
            Second(NormalizeFrom(tensor_dict, param_names, 1, Len(param_names),
                                 [err |-> NoError, dict |-> <<>>]))
    IN  First(Sorted(tensor_dict))

RECURSIVE ClassifierFrom(_, _, _)
ClassifierFrom(tensor_dict, param_names, i) ==
    IF i > Len(param_names) THEN <<>>
    ELSE <<[k |-> TrtTokens(param_names[i]),
            v |-> Weights(Flatten(DictGet(tensor_dict, param_names[i])))]>>
         \o ClassifierFrom(tensor_dict, param_names, i + 1)

get_classifier_weights(tensor_dict) ==
    ClassifierFrom(tensor_dict, Sorted(tensor_dict), 1)

(***************************************************************************)
(* load_ensemble_weights: raised is the exception that leaves the loader,  *)
(* logged the per-submodel errors get_submodel_weights swallowed.          *)
(***************************************************************************)
RECURSIVE LoadSubmodels(_, _, _, _)
LoadSubmodels(output_dict, config_list, model_id, out) ==
    IF model_id >= Len(config_list) \/ out.raised # "none" THEN out
    ELSE IF ToString(model_id) \notin DOMAIN output_dict
    THEN [out EXCEPT !.raised = "KeyError"]
    ELSE LET Put(sub) ==
                 LoadSubmodels(output_dict, config_list, model_id + 1,
                     [raised |-> sub.raised,
                      logged |-> Append(out.logged, sub.logged),
                      dict |-> [t \in DOMAIN out.dict \cup {ToString(model_id)} |->
                                  IF t = ToString(model_id) THEN sub.dict
                                  ELSE out.dict[t]]])
         IN  Put(get_submodel_weights(output_dict[ToString(model_id)],
                                      config_list[model_id + 1]))

load_ensemble_weights(ckpt, config_list) ==
    LET Classifier(output_dict, subs) ==
            IF subs.raised # "none" THEN subs
            ELSE [subs EXCEPT !.dict =
                    [t \in DOMAIN subs.dict \cup {"classifier"} |->
                       IF t = "classifier"
                       THEN get_classifier_weights(output_dict["classifier"])
                       ELSE subs.dict[t]]]
        Submodels(tf) ==
            IF tf.raised # "none"
            THEN [raised |-> tf.raised, logged |-> <<>>, dict |-> <<>>]
            ELSE Classifier(tf.dict,
                     LoadSubmodels(tf.dict, config_list, 0,
                         [raised |-> "none", logged |-> <<>>, dict |-> <<>>]))
    IN  Submodels(get_tf_tensor_dict(ckpt))

(***************************************************************************)
(* The checkpoint file: what torch.load returns, as an ordered dict of     *)
(* PyTorch keys in state_dict order.  Tensor t of a submodel holds the     *)
(* values seed + 100 t, seed + 100 t + 1, ... so that every element of a   *)
(* submodel is told apart from every other.                                *)
(***************************************************************************)
ArrayOf(shape, base) ==
    [shape |-> shape, data |-> Tuple([i \in 1..Size(shape) |-> base + i - 1])]

\* the parameters of one encoder layer: name below encoder.layer.<l>, shape
LayerParams(hs, inter) ==
    <<[n |-> <<"attention", "self", "query", "weight">>, s |-> <<hs, hs>>],
      [n |-> <<"attention", "self", "query", "bias">>, s |-> <<hs>>],
      [n |-> <<"attention", "self", "key", "weight">>, s |-> <<hs, hs>>],
      [n |-> <<"attention", "self", "key", "bias">>, s |-> <<hs>>],
      [n |-> <<"attention", "self", "value", "weight">>, s |-> <<hs, hs>>],
      [n |-> <<"attention", "self", "value", "bias">>, s |-> <<hs>>],
      [n |-> <<"attention", "output", "dense", "weight">>, s |-> <<hs, hs>>],
      [n |-> <<"attention", "output", "dense", "bias">>, s |-> <<hs>>],
      [n |-> <<"attention", "output", "LayerNorm", "weight">>, s |-> <<hs>>],
      [n |-> <<"attention", "output", "LayerNorm", "bias">>, s |-> <<hs>>],
      [n |-> <<"intermediate", "dense", "weight">>, s |-> <<inter, hs>>],
      [n |-> <<"intermediate", "dense", "bias">>, s |-> <<inter>>],
      [n |-> <<"output", "dense", "weight">>, s |-> <<hs, inter>>],
      [n |-> <<"output", "dense", "bias">>, s |-> <<hs>>],
      [n |-> <<"output", "LayerNorm", "weight">>, s |-> <<hs>>],
      [n |-> <<"output", "LayerNorm", "bias">>, s |-> <<hs>>]>>

EmbeddingParams(hs) ==
    <<[n |-> <<"embeddings", "word_embeddings", "weight">>, s |-> <<1, hs>>],
      [n |-> <<"embeddings", "position_embeddings", "weight">>, s |-> <<1, hs>>],
      [n |-> <<"embeddings", "token_type_embeddings", "weight">>, s |-> <<1, hs>>],
      [n |-> <<"embeddings", "LayerNorm", "weight">>, s |-> <<hs>>],
      [n |-> <<"embeddings", "LayerNorm", "bias">>, s |-> <<hs>>]>>

PoolerParams(hs) ==
    <<[n |-> <<"pooler", "dense", "weight">>, s |-> <<hs, hs>>],
      [n |-> <<"pooler", "dense", "bias">>, s |-> <<hs>>]>>

RECURSIVE EncoderParams(_, _, _, _)
\* the parameters of layers l..layers-1, named below encoder
EncoderParams(l, layers, hs, inter) ==
    IF l >= layers THEN <<>>
    ELSE LET params == LayerParams(hs, inter)
         IN  [i \in 1..Len(params) |->
                [n |-> <<"encoder", "layer", ToString(l)>> \o params[i].n,
                 s |-> params[i].s]]
             \o EncoderParams(l + 1, layers, hs, inter)

\* state_dict of submodel m: keys bert.models.<m>.<parameter>
SubmodelEntries(m, cfg, seed) ==
    LET params == EmbeddingParams(cfg.hidden_size)
                  \o EncoderParams(0, cfg.num_hidden_layers, cfg.hidden_size,
                                   cfg.intermediate_size)
                  \o PoolerParams(cfg.hidden_size)
    IN  Tuple([i \in 1..Len(params) |->
            [k |-> <<"bert", "models", ToString(m)>> \o params[i].n,
             v |-> ArrayOf(params[i].s, seed + 100 * i)]])

RECURSIVE SubmodelsEntries(_, _, _)
SubmodelsEntries(m, cfgs, seed) ==
    IF m >= Len(cfgs) THEN <<>>
    ELSE SubmodelEntries(m, cfgs[m + 1], seed) \o SubmodelsEntries(m + 1, cfgs, seed)

ClassifierEntries(cfgs, seed) ==
    <<[k |-> <<"classifier", "weight">>,
       v |-> ArrayOf(<<2, Len(cfgs) * cfgs[1].hidden_size>>, seed)],
      [k |-> <<"classifier", "bias">>, v |-> ArrayOf(<<2>>, seed)]>>

\* the full checkpoint of an ensemble with the configurations cfgs, less
\* the keys in dropped
Checkpoint(cfgs, seed, dropped) ==
    SelectSeq(SubmodelsEntries(0, cfgs, seed) \o ClassifierEntries(cfgs, seed),
              LAMBDA e : e.k \notin dropped)

\* torch.load(model_file).items() of the file
TorchLoad(file) == Checkpoint(file.cfgs, file.seed, file.dropped) \o file.extra

(***************************************************************************)
(* State of one run of the script.                                        *)
(***************************************************************************)
VARIABLES
    pc,                  \* position in main / build_engine
    argv,                \* the command line
    model_config,        \* config_list of the EnsembleModelConfig at config_path
    ckpt,                \* the checkpoint file: [cfgs, seed, dropped, extra]
    args,                \* main's args after line 975
    config_list,         \* main's config_list
    weights_dict,        \* main's weights_dict
    logged,              \* errors the loader wrote to the log
    network,             \* build_engine's network: [inputs, layers, outputs]
    profiles,            \* optimization profiles added to builder_config
    builder_flags,       \* flags set on builder_config
    global_submodel_id,  \* the module global _global_submodel_id
    locals,              \* build_engine's and bert_model's local variables
    error,               \* the exception that ended the run
    engine,              \* what builder.build_engine returned
    build_calls,         \* calls of builder.build_engine
    serialized_engine,   \* main's serialized_engine: "unbound", "bytes" or "None"
    output_file,         \* the file at args.output: "absent", "" (empty) or "bytes"
    values,              \* tensors at inference: the feeds and results of merge_pooling
    calib                \* generate_calibration_cache's frame: config, locals, position

vars == <<pc, trt_api, argv, model_config, ckpt, args, config_list, weights_dict,
          logged, network, profiles, builder_flags, global_submodel_id, locals,
          error, engine, build_calls, serialized_engine, output_file, values,
          calib>>

(***************************************************************************)
(* The network under construction.  A builder state st is the network      *)
(* (inputs, layers, outputs), the profiles added so far and the exception  *)
(* raised, if any; once an exception is raised nothing more is done.  A    *)
(* tensor is [layer, out]: output out of layer number layer, and layer 0   *)
(* stands for the network inputs (out is the input's index).  A layer      *)
(* keeps the names of the weights it was given, not their data.           *)
(***************************************************************************)
Tensor(layer, out) == [layer |-> layer, out |-> out]

Failed(st) == st.err.exc # "none"

Raise(st, exc, key) == IF Failed(st) THEN st ELSE [st EXCEPT !.err = Error(exc, key)]

\* init_dict[key]: KeyError when the key is absent
Need(st, init_dict, key) ==
    IF Failed(st) \/ DictHas(init_dict, key) THEN st ELSE Raise(st, "KeyError", key)

\* network.add_input(name, dtype, shape)
add_input(st, name, dtype, shape) ==
    IF Failed(st) THEN st
    ELSE [st EXCEPT !.inputs = Append(@, [name |-> name, dtype |-> dtype, shape |-> shape])]

\* network.get_input(index)
get_input(index) == Tensor(0, index)

\* network.add_<op>(inputs, ...): weights names the weights the layer was
\* given, type_id is the plugin's type_id field (-1 when the layer has none),
\* owner the value of _global_submodel_id when the layer was added
AddLayer(st, op, inputs, weights, type_id) ==
    IF Failed(st) THEN st
    ELSE [st EXCEPT !.layers = Append(@,
              [op |-> op, inputs |-> inputs, weights |-> weights, type_id |-> type_id,
               names |-> <<>>, ranges |-> <<>>, out_type |-> "default",
               owner |-> global_submodel_id])]

\* a naming without the submodel id
set_tensor_name_plain(st, tensor, prefix, name) ==
    IF Failed(st) THEN st
    ELSE [st EXCEPT !.layers[tensor.layer].names =
              Append(@, [out |-> tensor.out, name |-> <<"">> \o prefix \o name])]

\* tensor.name = str(_global_submodel_id) + "_" + prefix + name
set_tensor_name(st, tensor, prefix, name) ==
    IF Failed(st) THEN st
    ELSE [st EXCEPT !.layers[tensor.layer].names =
              Append(@, [out |-> tensor.out,
                         name |-> <<ToString(global_submodel_id)>> \o prefix \o name])]

\* tensor.set_dynamic_range(-maxval, maxval)
set_dynamic_range(st, tensor, maxval) ==
    IF Failed(st) THEN st
    ELSE [st EXCEPT !.layers[tensor.layer].ranges =
              Append(@, [out |-> tensor.out, maxval |-> maxval])]

\* layer.set_output_type(0, HALF if use_fp16 else FLOAT)
set_output_type(st, layer, config) ==
    IF Failed(st) THEN st
    ELSE [st EXCEPT !.layers[layer].out_type =
              IF config.use_fp16 THEN "HALF" ELSE "FLOAT"]

\* int(trt.float32) = 0, int(trt.float16) = 1, int(trt.int8) = 2
get_mha_dtype(config) ==
    IF config.use_int8 /\ config.use_int8_multihead /\ ~config.is_calib_mode THEN 2
    ELSE IF config.use_fp16 THEN 1
    ELSE 0

(***************************************************************************)
(* A block of the builder is the list of the steps it takes, in program    *)
(* order; Run takes them one after the other until one raises.  Each block *)
(* adds the same number of layers under every configuration, so a block    *)
(* that starts when the network has n layers knows the numbers of the      *)
(* layers it adds.                                                         *)
(***************************************************************************)
\* init_dict[key]
NeedStep(key) == [do |-> "need", key |-> key]
InputStep(name, dtype, shape) ==
    [do |-> "add_input", name |-> name, dtype |-> dtype, shape |-> shape]
ProfileStep(min_shape, shape) ==
    [do |-> "profile", min_shape |-> min_shape, shape |-> shape]
LayerStep(op, inputs, weights, type_id) ==
    [do |-> "add_layer", op |-> op, inputs |-> inputs, weights |-> weights,
     type_id |-> type_id]
NameStep(tensor, prefix, name) ==
    [do |-> "set_tensor_name", tensor |-> tensor, prefix |-> prefix, name |-> name]
RangeStep(tensor, maxval) ==
    [do |-> "set_dynamic_range", tensor |-> tensor, maxval |-> maxval]
OutputTypeStep(layer, config) ==
    [do |-> "set_output_type", layer |-> layer, config |-> config]
MarkOutputStep(tensor) == [do |-> "mark_output", tensor |-> tensor]
\* assert (init_dict[a] == init_dict[b])
AssertEqualStep(a, b) == [do |-> "assert_equal", a |-> a, b |-> b]
\* tensor.set_dynamic_range(-m, m) with m = max(init_dict[k] for k in keys)
RangeOfStep(tensor, keys) == [do |-> "range_of", tensor |-> tensor, keys |-> keys]
\* init_dict[key] / 127.0
DivideStep(key) == [do |-> "divide", key |-> key]

\* an entry of the weight map that is a numpy scalar (an amax value kept as
\* it was read) and not a trt.Weights buffer
IsScalar(init_dict, key) == DictGet(init_dict, key).shape = <<>>

ScalarOf(init_dict, key) == DictGet(init_dict, key).data[1]

\* a == b: numpy scalars compare by value; two trt.Weights objects are
\* equal only when they are the same object
assert_equal(st, init_dict, a, b) ==
    IF Failed(st) THEN st
    ELSE IF a = b
            \/ (/\ IsScalar(init_dict, a) /\ IsScalar(init_dict, b)
                /\ ScalarOf(init_dict, a) = ScalarOf(init_dict, b))
    THEN st
    ELSE Raise(st, "AssertionError", b)

\* a range setter that sets the lower and the upper bound in two calls
range_of_twice(st, init_dict, tensor, keys) ==
    IF Failed(st) THEN st
    ELSE IF \E i \in 1..Len(keys) : ~IsScalar(init_dict, keys[i])
    THEN Raise(st, "TypeError", keys[1])
    ELSE set_dynamic_range(set_dynamic_range(st, tensor, 0), tensor,
             CHOOSE m \in {ScalarOf(init_dict, keys[i]) : i \in 1..Len(keys)} :
                 \A i \in 1..Len(keys) : ScalarOf(init_dict, keys[i]) <= m)

\* max() and unary minus are defined on numpy scalars, not on trt.Weights
range_of(st, init_dict, tensor, keys) ==
    IF Failed(st) THEN st
    ELSE IF \E i \in 1..Len(keys) : ~IsScalar(init_dict, keys[i])
    THEN Raise(st, "TypeError", keys[1])
    ELSE set_dynamic_range(st, tensor,
             CHOOSE m \in {ScalarOf(init_dict, keys[i]) : i \in 1..Len(keys)} :
                 \A i \in 1..Len(keys) : ScalarOf(init_dict, keys[i]) <= m)

divide(st, init_dict, key) ==
    IF Failed(st) \/ IsScalar(init_dict, key) THEN st ELSE Raise(st, "TypeError", key)

\* the four profile.set_shape calls of lines 642-645 and line 646
add_optimization_profile(st, min_shape, shape) ==
    IF Failed(st) THEN st
    ELSE IF trt_api = "checked" /\ min_shape[2] > shape[2]
    THEN Raise(st, "RuntimeError", <<"input_ids">>)
    ELSE [st EXCEPT !.profiles = Append(@,
             [name \in {"input_ids", "segment_ids", "input_mask", "input_mask_fp32"} |->
                 [min |-> min_shape, opt |-> shape, max |-> shape]])]

mark_output(st, tensor) ==
    IF Failed(st) THEN st ELSE [st EXCEPT !.outputs = Append(@, tensor)]

Do(st, init_dict, step) ==
    CASE step.do = "need" -> Need(st, init_dict, step.key)
      [] step.do = "add_input" -> add_input(st, step.name, step.dtype, step.shape)
      [] step.do = "profile" -> add_optimization_profile(st, step.min_shape, step.shape)
      [] step.do = "add_layer" ->
            AddLayer(st, step.op, step.inputs, step.weights, step.type_id)
      [] step.do = "set_tensor_name" ->
            set_tensor_name(st, step.tensor, step.prefix, step.name)
      [] step.do = "set_dynamic_range" -> set_dynamic_range(st, step.tensor, step.maxval)
      [] step.do = "set_output_type" -> set_output_type(st, step.layer, step.config)
      [] step.do = "mark_output" -> mark_output(st, step.tensor)
      [] step.do = "assert_equal" -> assert_equal(st, init_dict, step.a, step.b)
      [] step.do = "range_of" -> range_of(st, init_dict, step.tensor, step.keys)
      [] step.do = "divide" -> divide(st, init_dict, step.key)

RECURSIVE RunFrom(_, _, _, _, _)
\* the steps lo..hi, in order
RunFrom(st, init_dict, steps, lo, hi) ==
    IF lo > hi \/ Failed(st) THEN st
    ELSE IF lo = hi THEN Do(st, init_dict, steps[lo])
    ELSE LET mid == (lo + hi) \div 2
             left == RunFrom(st, init_dict, steps, lo, mid)
         IN  IF Failed(left) THEN left
             ELSE RunFrom(left, init_dict, steps, mid + 1, hi)

Run(st, init_dict, steps) == RunFrom(st, init_dict, steps, 1, Len(steps))

\* the amax entries the quantization-aware path reads
QV_A_AMAX == <<"self", "qv", "a", "input", "quantizer", "amax">>
QV_B_AMAX == <<"self", "qv", "b", "input", "quantizer", "amax">>
AV_A_AMAX == <<"self", "av", "a", "input", "quantizer", "amax">>
AV_B_AMAX == <<"self", "av", "b", "input", "quantizer", "amax">>
OUT_DENSE_IN_AMAX == <<"output", "dense", "input", "amax">>
Q_IN_AMAX == <<"attention", "self", "query", "input", "amax">>
K_IN_AMAX == <<"attention", "self", "key", "input", "amax">>
V_IN_AMAX == <<"attention", "self", "value", "input", "amax">>
AOUT_ADD_AMAX == <<"attention", "output", "add", "local", "input", "quantizer", "amax">>
MID_IN_AMAX == <<"intermediate", "dense", "input", "amax">>
OUT_ADD_AMAX == <<"output", "add", "local", "input", "quantizer", "amax">>
FINAL_AMAX == <<"bert", "encoder", "final", "input", "quantizer", "amax">>

\* layers n+1 (mult_all) and n+2 (qkv2ctx, the layer returned)
attention_layer_opt(n, prefix, config, input_tensor, imask) ==
    LET mult_all == n + 1
        qkv2ctx == n + 2
    IN  <<NeedStep(prefix \o WQKV), NeedStep(prefix \o BQKV),
          LayerStep(IF config.use_int8 THEN "convolution" ELSE "fully_connected",
                    <<input_tensor>>, <<prefix \o WQKV, prefix \o BQKV>>, -1)>>
        \o (IF config.use_qat
            THEN <<NeedStep(prefix \o QV_A_AMAX), NeedStep(prefix \o QV_B_AMAX),
                   NeedStep(prefix \o AV_B_AMAX),
                   RangeOfStep(Tensor(mult_all, 0),
                               <<prefix \o QV_A_AMAX, prefix \o QV_B_AMAX,
                                 prefix \o AV_B_AMAX>>)>>
            ELSE <<>>)
        \o <<NameStep(Tensor(mult_all, 0), prefix, <<"qkv", "mult">>)>>
        \o (IF config.use_qat
            THEN <<NeedStep(prefix \o AV_A_AMAX), DivideStep(prefix \o AV_A_AMAX)>>
            ELSE <<>>)
        \o <<LayerStep("qkv2ctx", <<Tensor(mult_all, 0), imask>>, <<>>,
                       get_mha_dtype(config))>>
        \o (IF config.use_qat
            THEN <<NeedStep(prefix \o OUT_DENSE_IN_AMAX),
                   RangeOfStep(Tensor(qkv2ctx, 0), <<prefix \o OUT_DENSE_IN_AMAX>>)>>
            ELSE <<>>)
        \o <<NameStep(Tensor(qkv2ctx, 0), prefix, <<"context", "layer">>)>>

\* a SkipLayerNorm that takes the precision of the attention plugin
skipln_mha(prefix, config, input_tensor, skip, bias) ==
    <<NeedStep(prefix \o <<"beta">>), NeedStep(prefix \o <<"gamma">>),
      LayerStep("skipln", <<input_tensor, skip>>,
                <<prefix \o <<"beta">>, prefix \o <<"gamma">>>>
                \o (IF bias # <<>> THEN <<bias>> ELSE <<>>),
                get_mha_dtype(config))>>

\* a SkipLayerNorm that takes the skip tensor first
skipln_swapped(prefix, config, input_tensor, skip, bias) ==
    LET dtype == IF config.use_int8 /\ config.use_int8_skipln /\ ~config.is_calib_mode
                 THEN 2
                 ELSE IF config.use_fp16 THEN 1 ELSE 0
    IN  <<NeedStep(prefix \o <<"beta">>), NeedStep(prefix \o <<"gamma">>),
          LayerStep("skipln", <<skip, input_tensor>>,
                    <<prefix \o <<"beta">>, prefix \o <<"gamma">>>>
                    \o (IF bias # <<>> THEN <<bias>> ELSE <<>>),
                    dtype)>>

\* one layer; bias is the name of the bias weight, <<>> for None
skipln(prefix, config, input_tensor, skip, bias) ==
    LET dtype == IF config.use_int8 /\ config.use_int8_skipln /\ ~config.is_calib_mode
                 THEN 2
                 ELSE IF config.use_fp16 THEN 1 ELSE 0
    IN  <<NeedStep(prefix \o <<"beta">>), NeedStep(prefix \o <<"gamma">>),
          LayerStep("skipln", <<input_tensor, skip>>,
                    <<prefix \o <<"beta">>, prefix \o <<"gamma">>>>
                    \o (IF bias # <<>> THEN <<bias>> ELSE <<>>),
                    dtype)>>

\* one layer; W is the name of the weight
custom_fc(config, input_tensor, out_dims, W) ==
    <<LayerStep("fcplugin", <<input_tensor>>, <<W>>, IF config.use_fp16 THEN 1 ELSE 0)>>

\* a GELU range taken from the amax of the attention's output projection
gelu_range_attention(prefix, config, intermediate_act) ==
    IF config.use_int8
    THEN IF config.use_qat
         THEN <<NeedStep(prefix \o <<"attention">> \o OUT_DENSE_IN_AMAX),
                RangeOfStep(intermediate_act,
                            <<prefix \o <<"attention">> \o OUT_DENSE_IN_AMAX>>)>>
         ELSE <<RangeStep(intermediate_act, 10)>>
    ELSE <<>>

\* lines 364-370: the dynamic range of the GELU output
gelu_range(prefix, config, intermediate_act) ==
    IF config.use_int8
    THEN IF config.use_qat
         THEN <<NeedStep(prefix \o OUT_DENSE_IN_AMAX),
                RangeOfStep(intermediate_act, <<prefix \o OUT_DENSE_IN_AMAX>>)>>
         ELSE <<RangeStep(intermediate_act, 10)>>
    ELSE <<>>

\* layers n+1 .. n+20; the layer returned is n+20 (out_layer)
transformer_layer_opt(n, prefix, config, input_tensor, imask) ==
    LET context_transposed == n + 2
        attention_heads == Tensor(context_transposed, 0)
        attention_out_fc == n + 3
        skiplayer == n + 4
        attention_ln == Tensor(skiplayer, 0)
        mid_dense == n + 5
        mid_dense_out == Tensor(mid_dense, 0)
        POW == n + 6
        MULTIPLY == n + 7
        SQRT == n + 8
        ONE == n + 9
        HALF == n + 10
        X_pow == n + 11
        X_mul == n + 12
        X_add == n + 13
        X_sqrt == n + 14
        X_tanh == n + 15
        X_one == n + 16
        CDF == n + 17
        gelu_layer == n + 18
        intermediate_act == Tensor(gelu_layer, 0)
        out_dense == n + 19
        out_layer == n + 20
        conv2 == config.use_int8 /\ ~config.use_fc2_gemm
    IN  (IF config.use_qat
         THEN \* lines 303-306
              <<NeedStep(prefix \o Q_IN_AMAX), NeedStep(prefix \o K_IN_AMAX),
                AssertEqualStep(prefix \o Q_IN_AMAX, prefix \o K_IN_AMAX),
                NeedStep(prefix \o V_IN_AMAX),
                AssertEqualStep(prefix \o Q_IN_AMAX, prefix \o V_IN_AMAX),
                RangeOfStep(input_tensor, <<prefix \o Q_IN_AMAX>>)>>
         ELSE <<>>)
        \o attention_layer_opt(n, prefix \o <<"attention">>, config, input_tensor, imask)
        \* FC0
        \o <<NeedStep(prefix \o B_AOUT)>>
        \o (IF config.use_int8
            THEN <<NeedStep(prefix \o W_AOUT),
                   LayerStep("convolution", <<attention_heads>>,
                             <<prefix \o W_AOUT, prefix \o B_AOUT>>, -1)>>
                 \o (IF ~config.use_int8_skipln
                     THEN <<OutputTypeStep(attention_out_fc, config)>> ELSE <<>>)
                 \o (IF config.use_qat
                     THEN <<NeedStep(prefix \o AOUT_ADD_AMAX),
                            RangeOfStep(Tensor(attention_out_fc, 0),
                                        <<prefix \o AOUT_ADD_AMAX>>)>>
                     ELSE <<>>)
            ELSE <<NeedStep(prefix \o W_AOUT \o <<"notrans">>)>>
                 \o custom_fc(config, attention_heads, config.hidden_size,
                              prefix \o W_AOUT \o <<"notrans">>))
        \o skipln(prefix \o <<"attention", "output", "layernorm">>, config,
                  Tensor(attention_out_fc, 0), input_tensor,
                  IF config.use_int8 THEN <<>> ELSE prefix \o B_AOUT)
        \o (IF config.use_qat
            THEN <<NeedStep(prefix \o MID_IN_AMAX),
                   RangeOfStep(attention_ln, <<prefix \o MID_IN_AMAX>>)>>
            ELSE <<>>)
        \* FC1 + GELU
        \o <<NeedStep(prefix \o B_MID), NeedStep(prefix \o W_MID),
             LayerStep(IF config.use_int8 THEN "convolution" ELSE "fully_connected",
                       <<attention_ln>>, <<prefix \o W_MID, prefix \o B_MID>>, -1),
             LayerStep("constant", <<>>, <<>>, -1),
             LayerStep("constant", <<>>, <<>>, -1),
             LayerStep("constant", <<>>, <<>>, -1),
             LayerStep("constant", <<>>, <<>>, -1),
             LayerStep("constant", <<>>, <<>>, -1),
             LayerStep("elementwise_POW", <<mid_dense_out, Tensor(POW, 0)>>, <<>>, -1),
             LayerStep("elementwise_PROD", <<Tensor(X_pow, 0), Tensor(MULTIPLY, 0)>>,
                       <<>>, -1),
             LayerStep("elementwise_SUM", <<mid_dense_out, Tensor(X_mul, 0)>>, <<>>, -1),
             LayerStep("elementwise_PROD", <<Tensor(X_add, 0), Tensor(SQRT, 0)>>, <<>>, -1),
             LayerStep("activation_TANH", <<Tensor(X_sqrt, 0)>>, <<>>, -1),
             LayerStep("elementwise_SUM", <<Tensor(X_tanh, 0), Tensor(ONE, 0)>>, <<>>, -1),
             LayerStep("elementwise_PROD", <<Tensor(X_one, 0), Tensor(HALF, 0)>>, <<>>, -1),
             LayerStep("elementwise_PROD", <<Tensor(CDF, 0), mid_dense_out>>, <<>>, -1),
             NameStep(intermediate_act, prefix, <<"gelu">>)>>
        \o gelu_range(prefix, config, intermediate_act)
        \* FC2
        \o <<NeedStep(prefix \o B_LOUT)>>
        \o (IF conv2
            THEN <<NeedStep(prefix \o W_LOUT),
                   LayerStep("convolution", <<intermediate_act>>,
                             <<prefix \o W_LOUT, prefix \o B_LOUT>>, -1)>>
                 \o (IF ~config.use_int8_skipln
                     THEN <<OutputTypeStep(out_dense, config)>> ELSE <<>>)
            ELSE <<NeedStep(prefix \o W_LOUT \o <<"notrans">>)>>
                 \o custom_fc(config, intermediate_act, config.hidden_size,
                              prefix \o W_LOUT \o <<"notrans">>))
        \o (IF config.use_qat
            THEN <<NeedStep(prefix \o OUT_ADD_AMAX),
                   RangeOfStep(Tensor(out_dense, 0), <<prefix \o OUT_ADD_AMAX>>)>>
            ELSE <<>>)
        \o <<NameStep(Tensor(out_dense, 0), prefix \o <<"output">>, <<"dense">>)>>
        \o skipln(prefix \o <<"output", "layernorm">>, config, Tensor(out_dense, 0),
                  attention_ln, IF conv2 THEN <<>> ELSE prefix \o B_LOUT)
        \o <<NameStep(Tensor(out_layer, 0), prefix \o <<"output">>, <<"reshape">>)>>

(***************************************************************************)
(* emb_layernorm: the shared inputs, the optimization profiles and the     *)
(* embedding plugin of one submodel.                                       *)
(***************************************************************************)
\* sorted(batch_sizes) for a list of integers
SortedInts(batch_sizes) ==
    LET k == Len(batch_sizes)
        place == Tuple([i \in 1..k |->
                     Cardinality({j \in 1..k : batch_sizes[j] < batch_sizes[i]
                                   \/ (batch_sizes[j] = batch_sizes[i] /\ j < i)})])
    IN  Tuple([p \in 1..k |-> batch_sizes[CHOOSE i \in 1..k : place[i] = p - 1]])

\* a loop that lets each profile start at the previous batch size itself
ProfileLoop_overlapping(sequence_length, batch_sizes) ==
    LET sizes == SortedInts(batch_sizes)
    IN  Tuple([i \in 1..Len(sizes) |->
            ProfileStep(<<sequence_length, IF i = 1 THEN 1 ELSE sizes[i - 1]>>,
                        <<sequence_length, sizes[i]>>)])

\* lines 637-647: one profile for each batch size, in increasing order
ProfileLoop(sequence_length, batch_sizes) ==
    LET sizes == SortedInts(batch_sizes)
    IN  Tuple([i \in 1..Len(sizes) |->
            ProfileStep(<<sequence_length, (IF i = 1 THEN 0 ELSE sizes[i - 1]) + 1>>,
                        <<sequence_length, sizes[i]>>)])

EMB_BETA == <<"bert", "embeddings", "layernorm", "beta">>
EMB_GAMMA == <<"bert", "embeddings", "layernorm", "gamma">>
EMB_WORD == <<"bert", "embeddings", "word", "embeddings">>
EMB_TOKEN_TYPE == <<"bert", "embeddings", "token", "type", "embeddings">>
EMB_POSITION == <<"bert", "embeddings", "position", "embeddings">>

\* an embedding block that declares the inputs for every submodel
emb_layernorm_redeclare(n, config, sequence_length, batch_sizes, model_id) ==
    LET batch == IF Len(batch_sizes) > 1 THEN -1 ELSE batch_sizes[1]
    IN  <<InputStep("input_ids", "int32", <<sequence_length, batch>>),
          InputStep("segment_ids", "int32", <<sequence_length, batch>>),
          InputStep("input_mask", "int32", <<sequence_length, batch>>),
          InputStep("input_mask_fp32", "float32", <<sequence_length, batch>>),
          NeedStep(EMB_BETA), NeedStep(EMB_GAMMA), NeedStep(EMB_WORD),
          NeedStep(EMB_TOKEN_TYPE), NeedStep(EMB_POSITION),
          LayerStep("embeddings", <<get_input(0), get_input(1), get_input(2)>>,
                    <<EMB_BETA, EMB_GAMMA, EMB_WORD, EMB_TOKEN_TYPE, EMB_POSITION>>,
                    get_mha_dtype(config)),
          NameStep(Tensor(n + 1, 0), <<"embeddings">>, <<"output">>)>>

\* layer n+1 (emb_layer, the layer returned)
emb_layernorm(n, config, sequence_length, batch_sizes, model_id) ==
    LET add == model_id = 0
        batch == IF Len(batch_sizes) > 1 THEN -1 ELSE batch_sizes[1]
        input_ids == get_input(0)
        segment_ids == get_input(1)
        input_mask == get_input(2)
        emb_layer == n + 1
    IN  (IF add
         THEN <<InputStep("input_ids", "int32", <<sequence_length, batch>>),
                InputStep("segment_ids", "int32", <<sequence_length, batch>>),
                InputStep("input_mask", "int32", <<sequence_length, batch>>),
                InputStep("input_mask_fp32", "float32", <<sequence_length, batch>>)>>
         ELSE <<>>)
        \o (IF Len(batch_sizes) > 1
            THEN ProfileLoop(sequence_length, batch_sizes) ELSE <<>>)
        \o <<NeedStep(EMB_BETA), NeedStep(EMB_GAMMA), NeedStep(EMB_WORD),
             NeedStep(EMB_TOKEN_TYPE), NeedStep(EMB_POSITION),
             LayerStep("embeddings", <<input_ids, segment_ids, input_mask>>,
                       <<EMB_BETA, EMB_GAMMA, EMB_WORD, EMB_TOKEN_TYPE, EMB_POSITION>>,
                       get_mha_dtype(config))>>
        \o (IF config.use_qat THEN <<RangeStep(Tensor(emb_layer, 1), 1)>> ELSE <<>>)
        \o <<NameStep(Tensor(emb_layer, 0), <<"embeddings">>, <<"output">>)>>

(***************************************************************************)
(* The head of the ensemble.                                               *)
(***************************************************************************)
POOLER_W == <<"bert", "pooler", "dense", "weight">>
POOLER_B == <<"bert", "pooler", "dense", "bias">>
CLASSIFIER_W == <<"classifier", "weight">>
CLASSIFIER_B == <<"classifier", "bias">>

\* a pooler whose dense node reads the activation that follows it
pooler_layer_forward(n, input_tensor) ==
    <<NeedStep(POOLER_W), NeedStep(POOLER_B),
      LayerStep("slice", <<input_tensor>>, <<>>, -1),
      LayerStep("fully_connected", <<Tensor(n + 3, 0)>>, <<POOLER_W, POOLER_B>>, -1),
      LayerStep("activation_TANH", <<Tensor(n + 2, 0)>>, <<>>, -1)>>

\* layers n+1 .. n+3; the tensor returned is output 0 of layer n+3
pooler_layer(n, input_tensor) ==
    <<NeedStep(POOLER_W), NeedStep(POOLER_B),
      LayerStep("slice", <<input_tensor>>, <<>>, -1),
      LayerStep("fully_connected", <<Tensor(n + 1, 0)>>, <<POOLER_W, POOLER_B>>, -1),
      LayerStep("activation_TANH", <<Tensor(n + 2, 0)>>, <<>>, -1)>>

\* an aggregation that concatenates its inputs twice
ensemble_pooling_twice(inputs) ==
    <<LayerStep("concatenation", inputs, <<>>, -1),
      LayerStep("concatenation", inputs, <<>>, -1)>>

\* layer n+1; the tensor returned is its output 0
ensemble_pooling(inputs) == <<LayerStep("concatenation", inputs, <<>>, -1)>>

\* layers n+1 .. n+5; the tensor returned is pooled_outputs
merge_pooling(n, pooled_outputs, sequence_outputs, input_mask) ==
    LET expand_input_mask == Tensor(n + 1, 0)
        norminator == Tensor(n + 3, 0)
        denominator == Tensor(n + 4, 0)
    IN  <<LayerStep("shuffle", <<input_mask>>, <<>>, -1),
          LayerStep("elementwise_PROD", <<sequence_outputs, expand_input_mask>>, <<>>, -1),
          LayerStep("reduce_SUM", <<Tensor(n + 2, 0)>>, <<>>, -1),
          LayerStep("reduce_SUM", <<expand_input_mask>>, <<>>, -1),
          LayerStep("elementwise_DIV", <<norminator, denominator>>, <<>>, -1)>>

\* a classifier head that reads the node added last before it (the masked
\* mean) whatever tensor it is given
classifier_output_mean(n, input_tensor) ==
    <<NeedStep(CLASSIFIER_W), NeedStep(CLASSIFIER_B),
      LayerStep("fully_connected", <<Tensor(n, 0)>>, <<CLASSIFIER_W, CLASSIFIER_B>>, -1),
      LayerStep("shuffle", <<Tensor(n + 1, 0)>>, <<>>, -1),
      LayerStep("softmax", <<Tensor(n + 2, 0)>>, <<>>, -1),
      NameStep(Tensor(n + 3, 0), <<>>, <<"classifierscore">>)>>

\* layers n+1 .. n+3; the layer returned is n+3 (OUT)
classifier_output(n, input_tensor) ==
    <<NeedStep(CLASSIFIER_W), NeedStep(CLASSIFIER_B),
      LayerStep("fully_connected", <<input_tensor>>, <<CLASSIFIER_W, CLASSIFIER_B>>, -1),
      LayerStep("shuffle", <<Tensor(n + 1, 0)>>, <<>>, -1),
      LayerStep("softmax", <<Tensor(n + 2, 0)>>, <<>>, -1),
      NameStep(Tensor(n + 3, 0), <<>>, <<"classifierscore">>)>>

(***************************************************************************)
(* The inputs of a run: the command line, the model configuration at       *)
(* config_path, the checkpoint file and the installed TensorRT.            *)
(***************************************************************************)
SequenceLength == 128

\* bert_config dictionaries: (hidden_size, num_attention_heads) is one of
\* (2, 2), (2, 1) and (3, 2), the last with heads not dividing hidden_size
Arch(hidden_size, heads, layers) ==
    [num_attention_heads |-> heads, hidden_size |-> hidden_size,
     intermediate_size |-> hidden_size + 1, num_hidden_layers |-> layers]

Archs == {Arch(h[1], h[2], l) : h \in {<<2, 2>>, <<2, 1>>, <<3, 2>>}, l \in 1..MaxLayers}

\* ensembles of 1..MaxModels submodels: the first of architecture a, the
\* others of architecture b
Ensemble(a, b, n) == [i \in 1..n |-> IF i = 1 THEN a ELSE b]

Ensembles == {Ensemble(a, b, n) : a \in Archs, b \in Archs, n \in 1..MaxModels}

Uniform(n, layers) == Ensemble(Arch(2, 2, layers), Arch(2, 2, layers), n)

\* the -b options given, in order
BatchLists ==
    UNION {[1..n -> 1..MaxBatch] : n \in 0..MaxBatchCount} \cup {<<1, 4, 8>>}

NoFlags ==
    [fp16 |-> FALSE, int8 |-> FALSE, strict |-> FALSE, onnx |-> FALSE,
     force_fc2_gemm |-> FALSE, force_int8_skipln |-> FALSE,
     force_int8_multihead |-> FALSE]

FlagSets ==
    [fp16 : BOOLEAN, int8 : BOOLEAN, strict : BOOLEAN, onnx : BOOLEAN,
     force_fc2_gemm : BOOLEAN, force_int8_skipln : BOOLEAN,
     force_int8_multihead : BOOLEAN]

Argv(batch_size, flags) == [batch_size |-> batch_size, flags |-> flags]

\* checkpoint keys whose absence the loader or the builder notices
LayerKey(m, l, rest) ==
    <<"bert", "models", ToString(m), "encoder", "layer", ToString(l)>> \o rest

DropKeys ==
    {LayerKey(m, l, rest) : m \in 0..(MaxModels - 1), l \in 0..(MaxLayers - 1),
        rest \in {<<"attention", "self", "key", "bias">>,
                  <<"attention", "self", "query", "bias">>,
                  <<"attention", "self", "value", "weight">>,
                  <<"output", "dense", "weight">>}}
    \cup {<<"bert", "models", ToString(m)>> \o rest : m \in 0..(MaxModels - 1),
            rest \in {<<"embeddings", "LayerNorm", "weight">>,
                      <<"pooler", "dense", "bias">>}}
    \cup {<<"classifier", "weight">>}

File(cfgs, seed, dropped) ==
    [cfgs |-> cfgs, seed |-> seed, dropped |-> dropped, extra |-> <<>>]

\* a complete checkpoint followed by the entries extra
FileWith(cfgs, seed, extra) ==
    [cfgs |-> cfgs, seed |-> seed, dropped |-> {}, extra |-> extra]

\* entries no submodel of the ensemble expects: a key outside the embedding
\* map, a key of no known group, an encoder key without a layer, a key with
\* 'models' and no number, a key whose third field is no submodel id
ExtraKeys ==
    {<<"bert", "models", "0", "embeddings", "dense", "weight">>,
     <<"bert", "models", "0", "classifier", "weight">>,
     <<"bert", "models", "0", "encoder", "dense", "weight">>,
     <<"bert", "models">>,
     <<"bert", "encoder", "1", "pooler", "dense", "bias">>}

ExtraEntry(key) == [k |-> key, v |-> ArrayOf(<<1, 1>>, 0)]

\* every combination of precision flags on a one-layer model
FlagRuns ==
    {[argv |-> Argv(<<>>, f), model_config |-> Uniform(1, 1),
      ckpt |-> File(Uniform(1, 1), 1, {}), trt_api |-> "legacy"] : f \in FlagSets}

\* every list of batch sizes on ensembles of one-layer submodels
BatchRuns ==
    {[argv |-> Argv(b, NoFlags), model_config |-> Uniform(n, 1),
      ckpt |-> File(Uniform(n, 1), 1, {}), trt_api |-> api] :
        b \in BatchLists, n \in 1..MaxModels, api \in {"legacy", "checked"}}

\* every ensemble with its own checkpoint
StructureRuns ==
    {[argv |-> Argv(<<>>, NoFlags), model_config |-> e,
      ckpt |-> File(e, seed, {}), trt_api |-> api] :
        e \in Ensembles, seed \in 1..MaxSeed, api \in {"legacy", "checked"}}

\* checkpoints that lack an entry, and checkpoints of another ensemble
AnomalyRuns ==
    {[argv |-> Argv(<<>>, NoFlags), model_config |-> Uniform(MaxModels, MaxLayers),
      ckpt |-> File(Uniform(MaxModels, MaxLayers), 1, {k}), trt_api |-> api] :
        k \in DropKeys, api \in {"legacy", "checked"}}
    \cup
    {[argv |-> Argv(<<>>, NoFlags), model_config |-> Uniform(n, 1),
      ckpt |-> File(Uniform(m, 1), 1, {}), trt_api |-> "legacy"] :
        n \in 1..MaxModels, m \in 1..MaxModels}

\* one submodel of hidden size 4 with 2 heads of size 2
WideRuns ==
    {[argv |-> Argv(<<>>, NoFlags), model_config |-> <<Arch(4, 2, 1)>>,
      ckpt |-> File(<<Arch(4, 2, 1)>>, seed, {}), trt_api |-> api] :
        seed \in 1..MaxSeed, api \in {"legacy", "checked"}}

\* a complete checkpoint with one entry more
ExtraRuns ==
    {[argv |-> Argv(<<>>, NoFlags), model_config |-> Uniform(1, 1),
      ckpt |-> FileWith(Uniform(1, 1), 1, <<ExtraEntry(key)>>), trt_api |-> "legacy"] :
        key \in ExtraKeys}

Runs ==
    FlagRuns \cup BatchRuns \cup StructureRuns \cup AnomalyRuns \cup WideRuns
    \cup ExtraRuns

\* no inference has run; generate_calibration_cache is not being called
NoValues == [sequence_outputs |-> <<>>, input_mask |-> <<>>, mean_pooling_output |-> <<>>]

NoCalib == [at |-> "idle"]

NoNetwork == [inputs |-> <<>>, layers |-> <<>>, outputs |-> <<>>]

NoLocals ==
    [model_id |-> 0, layer |-> 0, embeddings |-> Tensor(0, 0), mask_idx |-> Tensor(0, 0),
     prev_input |-> Tensor(0, 0), pooled_outputs_list |-> <<>>,
     sequence_outputs_list |-> <<>>, merged_outputs |-> Tensor(0, 0)]

Init ==
    /\ \E r \in Runs :
          /\ argv = r.argv
          /\ model_config = r.model_config
          /\ ckpt = r.ckpt
          /\ trt_api = r.trt_api
    /\ pc = "main"
    /\ args = Argv(<<>>, NoFlags)
    /\ config_list = <<>>
    /\ weights_dict = <<>>
    /\ logged = <<>>
    /\ network = NoNetwork
    /\ profiles = <<>>
    /\ builder_flags = {}
    /\ global_submodel_id = 0
    /\ locals = NoLocals
    /\ error = NoError
    /\ engine = "unbound"
    /\ build_calls = 0
    /\ serialized_engine = "unbound"
    /\ output_file = "absent"
    /\ values = NoValues
    /\ calib = NoCalib

(***************************************************************************)
(* main, up to the call of build_engine.                                   *)
(***************************************************************************)
\* lines 974-975
ParseArgs ==
    /\ pc = "main"
    /\ args' = [argv EXCEPT !.batch_size = IF @ = <<>> THEN <<1>> ELSE @]
    /\ pc' = "load_configs"
    /\ UNCHANGED <<trt_api, argv, model_config, ckpt, config_list, weights_dict, logged,
                   network, profiles, builder_flags, global_submodel_id, locals, error,
                   engine, build_calls, serialized_engine,
                   output_file, values, calib>>

BertConfig(bert_config, use_fp16, use_int8, use_strict, use_fc2_gemm, use_int8_skipln, use_int8_multihead, use_qat) ==
    [num_attention_heads |-> bert_config.num_attention_heads,
     hidden_size |-> bert_config.hidden_size,
     intermediate_size |-> bert_config.intermediate_size,
     num_hidden_layers |-> bert_config.num_hidden_layers,
     head_size |-> bert_config.hidden_size \div bert_config.num_attention_heads,
     use_fp16 |-> use_fp16, use_int8 |-> use_int8, use_fc2_gemm |-> use_fc2_gemm,
     use_strict |-> use_strict, use_int8_skipln |-> use_int8_skipln,
     use_int8_multihead |-> use_int8_multihead, is_calib_mode |-> FALSE,
     use_qat |-> use_qat]

load_configs(submodel_configs, use_fp16, use_int8, use_strict, use_fc2_gemm, use_int8_skipln, use_int8_multihead, use_qat) ==
    Tuple([i \in 1..Len(submodel_configs) |->
        BertConfig(submodel_configs[i], use_fp16, use_int8, use_strict, use_fc2_gemm,
                   use_int8_skipln, use_int8_multihead, use_qat)])

\* lines 977-982
LoadConfigs ==
    /\ pc = "load_configs"
    /\ config_list' =
          load_configs(model_config, args.flags.fp16, args.flags.int8, args.flags.strict,
                       args.flags.force_fc2_gemm, args.flags.force_int8_skipln,
                       args.flags.force_int8_multihead,
                       args.flags.int8 /\ args.flags.onnx)
    /\ pc' = "load_weights"
    /\ UNCHANGED <<trt_api, argv, model_config, ckpt, args, weights_dict, logged, network,
                   profiles, builder_flags, global_submodel_id, locals, error, engine,
                   build_calls, serialized_engine,
                   output_file, values, calib>>

\* line 983
LoadEnsembleWeights ==
    /\ pc = "load_weights"
    /\ LET Returned(r) ==
               /\ logged' = r.logged
               /\ IF r.raised # "none"
                  THEN /\ pc' = "failed"
                       /\ error' = Error(r.raised, <<>>)
                       /\ UNCHANGED weights_dict
                  ELSE /\ pc' = "build_engine"
                       /\ weights_dict' = r.dict
                       /\ UNCHANGED error
       IN  Returned(load_ensemble_weights(TorchLoad(ckpt), config_list))
    /\ UNCHANGED <<trt_api, argv, model_config, ckpt, args, config_list, network, profiles,
                   builder_flags, global_submodel_id, locals, engine, build_calls,
                   serialized_engine,
                   output_file, values, calib>>

(***************************************************************************)
(* build_engine.                                                           *)
(***************************************************************************)
\* the builder state the next block starts from
Building ==
    [inputs |-> network.inputs, layers |-> network.layers, outputs |-> network.outputs,
     profiles |-> profiles, err |-> NoError]

\* what a block left behind, also when it raised
Built(st) ==
    /\ network' = [inputs |-> st.inputs, layers |-> st.layers, outputs |-> st.outputs]
    /\ profiles' = st.profiles
    /\ error' = st.err

\* lines 887-902; BertCalibrator is not defined in the script
BuildEngineEnter ==
    /\ pc = "build_engine"
    /\ LET config == config_list[1]
       IN  /\ builder_flags' =
                 (IF config.use_fp16 THEN {"FP16"} ELSE {})
                 \cup (IF config.use_int8 THEN {"INT8"} ELSE {})
                 \cup (IF config.use_strict /\ (~config.use_int8 \/ config.use_qat)
                       THEN {"STRICT_TYPES"} ELSE {})
           /\ IF config.use_int8 /\ ~config.use_qat
              THEN pc' = "failed" /\ error' = Error("NameError", <<"BertCalibrator">>)
              ELSE pc' = "for_model" /\ UNCHANGED error
    /\ locals' = NoLocals
    /\ UNCHANGED <<trt_api, argv, model_config, ckpt, args, config_list, weights_dict,
                   logged, network, profiles, global_submodel_id, engine, build_calls,
                   serialized_engine,
                   output_file, values, calib>>

\* lines 903-905
ForModel ==
    /\ pc = "for_model"
    /\ global_submodel_id' = locals.model_id
    /\ pc' = "emb_layernorm"
    /\ UNCHANGED <<trt_api, argv, model_config, ckpt, args, config_list, weights_dict,
                   logged, network, profiles, builder_flags, locals, error, engine,
                   build_calls, serialized_engine,
                   output_file, values, calib>>

\* lines 907-911, and line 402 of bert_model
EmbLayernorm ==
    /\ pc = "emb_layernorm"
    /\ LET n == Len(network.layers)
           st == Run(Building, weights_dict[ToString(locals.model_id)],
                     emb_layernorm(n, config_list[locals.model_id + 1], SequenceLength,
                                   args.batch_size, locals.model_id))
           emb_layer == n + 1
       IN  /\ Built(st)
           /\ IF Failed(st)
              THEN pc' = "failed" /\ UNCHANGED locals
              ELSE /\ pc' = "bert_model"
                   /\ locals' = [locals EXCEPT !.embeddings = Tensor(emb_layer, 0),
                                               !.mask_idx = Tensor(emb_layer, 1),
                                               !.prev_input = Tensor(emb_layer, 0),
                                               !.layer = 0]
    /\ UNCHANGED <<trt_api, argv, model_config, ckpt, args, config_list, weights_dict,
                   logged, builder_flags, global_submodel_id, engine, build_calls,
                   serialized_engine,
                   output_file, values, calib>>

\* a loop that keeps handing the embedding output to every layer
get_output_stale(prev_input, out_layer) == prev_input

\* line 406: prev_input = out_layer.get_output(0)
get_output(prev_input, out_layer) == Tensor(out_layer, 0)

\* lines 403-406: one turn of bert_model's loop
BertModelLayer ==
    /\ pc = "bert_model"
    /\ locals.layer < config_list[locals.model_id + 1].num_hidden_layers
    /\ LET n == Len(network.layers)
           st == Run(Building, weights_dict[ToString(locals.model_id)],
                     transformer_layer_opt(n, <<LayerPrefix(ToString(locals.layer))>>,
                         config_list[locals.model_id + 1], locals.prev_input,
                         locals.mask_idx))
           out_layer == n + 20
       IN  /\ Built(st)
           /\ IF Failed(st)
              THEN pc' = "failed" /\ UNCHANGED locals
              ELSE /\ pc' = "bert_model"
                   /\ locals' = [locals EXCEPT
                          !.prev_input = get_output(locals.prev_input, out_layer),
                          !.layer = @ + 1]
    /\ UNCHANGED <<trt_api, argv, model_config, ckpt, args, config_list, weights_dict,
                   logged, builder_flags, global_submodel_id, engine, build_calls,
                   serialized_engine,
                   output_file, values, calib>>

\* lines 408-411: out_layer is the layer that produced prev_input
BertModelReturn ==
    /\ pc = "bert_model"
    /\ locals.layer >= config_list[locals.model_id + 1].num_hidden_layers
    /\ LET config == config_list[locals.model_id + 1]
           st == Run(Building, weights_dict[ToString(locals.model_id)],
                     IF config.use_qat
                     THEN <<NeedStep(FINAL_AMAX),
                            RangeOfStep(locals.prev_input, <<FINAL_AMAX>>)>>
                     ELSE <<>>)
       IN  /\ Built(st)
           /\ pc' = IF Failed(st) THEN "failed" ELSE "pooler_layer"
    /\ UNCHANGED <<trt_api, argv, model_config, ckpt, args, config_list, weights_dict,
                   logged, builder_flags, global_submodel_id, locals, engine, build_calls,
                   serialized_engine,
                   output_file, values, calib>>

\* lines 916-919 and the loop's next turn
PoolerLayer ==
    /\ pc = "pooler_layer"
    /\ LET n == Len(network.layers)
           bert_out == locals.prev_input
           st == Run(Building, weights_dict[ToString(locals.model_id)],
                     pooler_layer(n, bert_out))
           pooled_output == Tensor(n + 3, 0)
       IN  /\ Built(st)
           /\ IF Failed(st)
              THEN pc' = "failed" /\ UNCHANGED locals
              ELSE /\ locals' = [locals EXCEPT
                          !.pooled_outputs_list = Append(@, pooled_output),
                          !.sequence_outputs_list = Append(@, bert_out),
                          !.model_id = @ + 1]
                   /\ pc' = IF locals.model_id + 1 < Len(config_list)
                            THEN "for_model" ELSE "ensemble_pooling"
    /\ UNCHANGED <<trt_api, argv, model_config, ckpt, args, config_list, weights_dict,
                   logged, builder_flags, global_submodel_id, engine, build_calls,
                   serialized_engine,
                   output_file, values, calib>>

\* lines 920-924
EnsemblePooling ==
    /\ pc = "ensemble_pooling"
    /\ LET n == Len(network.layers)
           pooled_outputs == Tensor(n + 1, 0)
           sequence_outputs == Tensor(n + 2, 0)
           st == Run(Building, <<>>,
                     ensemble_pooling(locals.pooled_outputs_list)
                     \o ensemble_pooling(locals.sequence_outputs_list)
                     \o merge_pooling(n + 2, pooled_outputs, sequence_outputs,
                                      get_input(3)))
       IN  /\ Built(st)
           /\ locals' = [locals EXCEPT !.merged_outputs = pooled_outputs]
    /\ pc' = "classifier_output"
    /\ UNCHANGED <<trt_api, argv, model_config, ckpt, args, config_list, weights_dict,
                   logged, builder_flags, global_submodel_id, engine, build_calls,
                   serialized_engine,
                   output_file, values, calib>>

\* lines 925-927
ClassifierOutput ==
    /\ pc = "classifier_output"
    /\ LET n == Len(network.layers)
           output_score == n + 3
           st == Run(Building, weights_dict["classifier"],
                     classifier_output(n, locals.merged_outputs)
                     \o <<MarkOutputStep(Tensor(output_score, 0))>>)
       IN  /\ Built(st)
           /\ pc' = IF Failed(st) THEN "failed" ELSE "build"
    /\ UNCHANGED <<trt_api, argv, model_config, ckpt, args, config_list, weights_dict,
                   logged, builder_flags, global_submodel_id, locals, engine, build_calls,
                   serialized_engine,
                   output_file, values, calib>>

\* lines 929-935: the backend returns an engine, or None when it cannot
\* build one
BackendBuild ==
    /\ pc = "build"
    /\ build_calls' = build_calls + 1
    /\ engine' \in {"engine", "None"}
    /\ pc' = "with_engine"
    /\ UNCHANGED <<trt_api, argv, model_config, ckpt, args, config_list, weights_dict,
                   logged, network, profiles, builder_flags, global_submodel_id, locals,
                   error, serialized_engine,
                   output_file, values, calib>>

(***************************************************************************)
(* main, after build_engine returned.                                      *)
(***************************************************************************)
\* what a with statement raises for an object that is no context manager:
\* AttributeError up to Python 3.10, TypeError from Python 3.11 on
NoContextManager == {"AttributeError", "TypeError"}

\* what engine.serialize() does, by the installed TensorRT: it returns the
\* engine's bytes, returns None when it cannot serialize, or raises
SerializeOutcomes == {"bytes", "None", "raise"}

\* lines 984-987: None is no context manager
Serialize ==
    /\ pc = "with_engine"
    /\ IF engine = "None"
       THEN /\ pc' = "failed"
            /\ \E exc \in NoContextManager : error' = Error(exc, <<"__enter__">>)
            /\ UNCHANGED serialized_engine
       ELSE \E outcome \in SerializeOutcomes :
               IF outcome = "raise"
               THEN /\ pc' = "failed"
                    /\ error' = Error("RuntimeError", <<"serialize">>)
                    /\ UNCHANGED serialized_engine
               ELSE /\ serialized_engine' = outcome
                    /\ pc' = "write"
                    /\ UNCHANGED error
    /\ UNCHANGED <<trt_api, argv, model_config, ckpt, args, config_list, weights_dict,
                   logged, network, profiles, builder_flags, global_submodel_id, locals,
                   engine, build_calls, output_file, values, calib>>

\* lines 988-991: open(args.output, "wb") creates the file empty, and
\* fout.write(None) raises TypeError, which leaves the file closed and empty
WriteOutput ==
    /\ pc = "write"
    /\ IF serialized_engine = "None"
       THEN /\ output_file' = ""
            /\ pc' = "failed"
            /\ error' = Error("TypeError", <<"write">>)
       ELSE /\ output_file' = serialized_engine
            /\ pc' = "done"
            /\ UNCHANGED error
    /\ UNCHANGED <<trt_api, argv, model_config, ckpt, args, config_list, weights_dict,
                   logged, network, profiles, builder_flags, global_submodel_id, locals,
                   engine, build_calls, serialized_engine, values, calib>>

Next ==
    \/ ParseArgs
    \/ LoadConfigs
    \/ LoadEnsembleWeights
    \/ BuildEngineEnter
    \/ ForModel
    \/ EmbLayernorm
    \/ BertModelLayer
    \/ BertModelReturn
    \/ PoolerLayer
    \/ EnsemblePooling
    \/ ClassifierOutput
    \/ BackendBuild
    \/ Serialize
    \/ WriteOutput

Spec == Init /\ [][Next]_vars


(***************************************************************************)
(* The blocks of the builder (lines 903-927) applied to every              *)
(* configuration and to both kinds of weight map: the one the checkpoint   *)
(* loader returns, and one that also carries the amax scalars of a         *)
(* quantization-aware export, kept as numpy values (lines 583-584).        *)
(***************************************************************************)
\* the amax names of one transformer layer, below its prefix
LayerAmaxKeys ==
    <<Q_IN_AMAX, K_IN_AMAX, V_IN_AMAX,
      <<"attention">> \o QV_A_AMAX, <<"attention">> \o QV_B_AMAX,
      <<"attention">> \o AV_B_AMAX, <<"attention">> \o AV_A_AMAX,
      <<"attention">> \o OUT_DENSE_IN_AMAX, AOUT_ADD_AMAX, MID_IN_AMAX,
      OUT_DENSE_IN_AMAX, OUT_ADD_AMAX>>

NpScalar(x) == [shape |-> <<>>, data |-> <<x>>]

\* the amax value of the i-th name of layer l: the query, key and value
\* inputs share one value unless the export is uneven
AmaxValue(l, i, uneven) ==
    20 + 20 * l + (IF i \in {2, 3} /\ ~(uneven /\ i = 3) THEN 1 ELSE i)

RECURSIVE AmaxEntries(_, _, _)
\* the amax entries of layers l.., then the one of the encoder's output
AmaxEntries(l, layers, uneven) ==
    IF l >= layers THEN <<[k |-> FINAL_AMAX, v |-> NpScalar(19)]>>
    ELSE [i \in 1..Len(LayerAmaxKeys) |->
             [k |-> <<LayerPrefix(ToString(l))>> \o LayerAmaxKeys[i],
              v |-> NpScalar(AmaxValue(l, i, uneven))]]
         \o AmaxEntries(l + 1, layers, uneven)

\* the weight maps of the ensemble, each submodel's with its amax entries
Quantized(weights, cfgs, uneven) ==
    [t \in DOMAIN weights |->
        IF t = "classifier" THEN weights[t]
        ELSE weights[t]
             \o AmaxEntries(0, cfgs[DigitsValue(t) + 1].num_hidden_layers, uneven)]

BlockFlags ==
    [use_fp16 : BOOLEAN, use_int8 : BOOLEAN, use_fc2_gemm : BOOLEAN,
     use_int8_skipln : BOOLEAN, use_int8_multihead : BOOLEAN, use_qat : BOOLEAN,
     is_calib_mode : BOOLEAN]

NoBlockFlags == [f \in {"use_fp16", "use_int8", "use_fc2_gemm", "use_int8_skipln",
                         "use_int8_multihead", "use_qat", "is_calib_mode"} |-> FALSE]

\* the configuration list of lines 711-729 with the flags f on every submodel
FlaggedConfigs(cfgs, f) ==
    LET made == load_configs(cfgs, f.use_fp16, f.use_int8, FALSE, f.use_fc2_gemm,
                             f.use_int8_skipln, f.use_int8_multihead, f.use_qat)
    IN  Tuple([i \in 1..Len(made) |-> [made[i] EXCEPT !.is_calib_mode = f.is_calib_mode]])

\* the ensembles built and the weight maps given: amax is "none" (the
\* checkpoint loader's map), "even" or "uneven"
BlockRuns ==
    {[cfgs |-> Uniform(1, 1), amax |-> a] : a \in {"none", "even", "uneven"}}
    \cup {[cfgs |-> Uniform(MaxModels, MaxLayers), amax |-> "even"]}

BlocksInit ==
    /\ pc = "for_model"
    /\ trt_api = "legacy"
    /\ \E r \in BlockRuns :
          /\ model_config = r.cfgs
          /\ ckpt = File(r.cfgs, 1, {})
          /\ \E loaded \in {load_ensemble_weights(TorchLoad(ckpt),
                                   FlaggedConfigs(r.cfgs, NoBlockFlags)).dict} :
                \E weights \in {IF r.amax = "none" THEN loaded
                                ELSE Quantized(loaded, r.cfgs, r.amax = "uneven")} :
                   \E f \in BlockFlags :
                      /\ config_list = FlaggedConfigs(r.cfgs, f)
                      /\ weights_dict = weights
    /\ argv = Argv(<<>>, NoFlags)
    /\ args = Argv(<<1>>, NoFlags)
    /\ logged = <<>>
    /\ network = NoNetwork
    /\ profiles = <<>>
    /\ builder_flags = {}
    /\ global_submodel_id = 0
    /\ locals = NoLocals
    /\ error = NoError
    /\ engine = "unbound"
    /\ build_calls = 0
    /\ serialized_engine = "unbound"
    /\ output_file = "absent"
    /\ values = NoValues
    /\ calib = NoCalib

BlocksNext ==
    \/ ForModel
    \/ EmbLayernorm
    \/ BertModelLayer
    \/ BertModelReturn
    \/ PoolerLayer
    \/ EnsemblePooling
    \/ ClassifierOutput

BlocksSpec == BlocksInit /\ [][BlocksNext]_vars

(***************************************************************************)
(* generate_calibration_cache (lines 686-709), called with a BertConfig    *)
(* of any flags, with or without a cache file on disk.  calib holds the    *)
(* call's frame: at (position), config (the object passed, which the       *)
(* function mutates), called_with (the object as it was at the call),      *)
(* saved_use_fp16 and cache_exists.                                        *)
(***************************************************************************)
CalibInit ==
    /\ pc = "generate_calibration_cache"
    /\ \E f \in BlockFlags, exists \in BOOLEAN :
          \E config \in {[FlaggedConfigs(Uniform(1, 1), f)[1] EXCEPT
                             !.is_calib_mode = FALSE]} :
             calib = [at |-> "call", config |-> config, called_with |-> config,
                      saved_use_fp16 |-> "unbound", cache_exists |-> exists]
    /\ trt_api = "legacy"
    /\ argv = Argv(<<>>, NoFlags)
    /\ model_config = Uniform(1, 1)
    /\ ckpt = File(Uniform(1, 1), 1, {})
    /\ args = Argv(<<>>, NoFlags)
    /\ config_list = <<>>
    /\ weights_dict = <<>>
    /\ logged = <<>>
    /\ network = NoNetwork
    /\ profiles = <<>>
    /\ builder_flags = {}
    /\ global_submodel_id = 0
    /\ locals = NoLocals
    /\ error = NoError
    /\ engine = "unbound"
    /\ build_calls = 0
    /\ serialized_engine = "unbound"
    /\ output_file = "absent"
    /\ values = NoValues

\* lines 696-697
CalibrationCached ==
    /\ calib.at = "call"
    /\ ~calib.config.use_int8 \/ calib.cache_exists
    /\ calib' = [calib EXCEPT !.at = "returned"]
    /\ pc' = "returned"
    /\ UNCHANGED <<trt_api, argv, model_config, ckpt, args, config_list, weights_dict,
                   logged, network, profiles, builder_flags, global_submodel_id, locals,
                   error, engine, build_calls, serialized_engine, output_file, values>>

\* lines 700-702
CalibrationFlags ==
    /\ calib.at = "call"
    /\ ~(~calib.config.use_int8 \/ calib.cache_exists)
    /\ calib' = [calib EXCEPT !.saved_use_fp16 = calib.config.use_fp16,
                              !.config.use_fp16 = FALSE,
                              !.config.is_calib_mode = TRUE,
                              !.at = "build_engine"]
    /\ UNCHANGED <<pc, trt_api, argv, model_config, ckpt, args, config_list, weights_dict,
                   logged, network, profiles, builder_flags, global_submodel_id, locals,
                   error, engine, build_calls, serialized_engine, output_file, values>>

\* build_engine([1], ..., config, ...): line 888 subscripts its fourth
\* argument, config_list[0], and a BertConfig object has no __getitem__
nested_build_engine(config) == Error("TypeError", <<"config_list", "0">>)

\* lines 704-709: the with statement and, when it ends normally, the two
\* assignments that put the flags back
CalibrationBuild ==
    /\ calib.at = "build_engine"
    /\ LET raised == nested_build_engine(calib.config)
       IN  IF raised.exc # "none"
           THEN /\ error' = raised
                /\ calib' = [calib EXCEPT !.at = "raised"]
                /\ pc' = "failed"
           ELSE /\ calib' = [calib EXCEPT !.config.use_fp16 = calib.saved_use_fp16,
                                          !.config.is_calib_mode = FALSE,
                                          !.at = "returned"]
                /\ pc' = "returned"
                /\ UNCHANGED error
    /\ UNCHANGED <<trt_api, argv, model_config, ckpt, args, config_list, weights_dict,
                   logged, network, profiles, builder_flags, global_submodel_id, locals,
                   engine, build_calls, serialized_engine, output_file, values>>

CalibNext ==
    \/ CalibrationCached
    \/ CalibrationFlags
    \/ CalibrationBuild

CalibSpec == CalibInit /\ [][CalibNext]_vars

(***************************************************************************)
(* The nodes merge_pooling adds, as the engine evaluates them.  Tensors    *)
(* are arrays [shape, data] of integers; the quotient of the division node *)
(* is kept exact, as the pair [num, den].                                  *)
(***************************************************************************)
\* the result of a node whose shapes do not fit
NoTensor == [shape |-> <<0>>, data |-> <<>>]

\* IShuffleLayer with reshape_dims: the same elements, when the volumes agree
Shuffle(a, reshape_dims) ==
    IF Size(reshape_dims) = Len(a.data) THEN Reshape(a, reshape_dims) ELSE NoTensor

\* shapes of equal rank that agree on every axis or have length 1 there
Broadcastable(sa, sb) ==
    /\ Len(sa) = Len(sb)
    /\ \A k \in 1..Len(sa) : sa[k] = sb[k] \/ sa[k] = 1 \/ sb[k] = 1

\* the element of a that the multi-index idx of the broadcast result reads
BroadcastRead(a, idx) ==
    a.data[Ravel([k \in 1..Len(idx) |-> IF a.shape[k] = 1 THEN 0 ELSE idx[k]],
                 a.shape) + 1]

\* trt.ElementWiseOperation.PROD and DIV on two elements
Operate(op, x, y) == IF op = "PROD" THEN x * y ELSE [num |-> x, den |-> y]

\* IElementWiseLayer with the operation op
ElementWise(a, b, op) ==
    IF a = NoTensor \/ b = NoTensor \/ ~Broadcastable(a.shape, b.shape) THEN NoTensor
    ELSE LET shape == [k \in 1..Len(a.shape) |->
                          IF a.shape[k] = 1 THEN b.shape[k] ELSE a.shape[k]]
         IN  [shape |-> Tuple(shape),
              data |-> Tuple([p \in 1..Size(shape) |->
                          Operate(op, BroadcastRead(a, Unravel(p - 1, shape)),
                                  BroadcastRead(b, Unravel(p - 1, shape)))])]

RECURSIVE SumAlong(_, _, _, _)
\* a[idx] summed over the positions j..shape[axis]-1 of the axis
SumAlong(a, idx, axis, j) ==
    IF j >= a.shape[axis] THEN 0
    ELSE a.data[Ravel([idx EXCEPT ![axis] = j], a.shape) + 1]
         + SumAlong(a, idx, axis, j + 1)

\* IReduceLayer, ReduceOperation.SUM over one axis, keep_dims = True
ReduceSum(a, axis) ==
    IF a = NoTensor THEN NoTensor
    ELSE LET shape == [a.shape EXCEPT ![axis] = 1]
         IN  [shape |-> shape,
              data |-> Tuple([p \in 1..Size(shape) |->
                          SumAlong(a, Unravel(p - 1, shape), axis, 0)])]

\* the value of merge_pooling's mean_pooling_output; B is the first extent
\* of the mask's shape (line 848) and axes = 1 << 0 is the first axis
mean_pooling_output(sequence_outputs, input_mask) ==
    LET B == input_mask.shape[1]
        expand_input_mask == Shuffle(input_mask, <<B, 1, 1, 1, 1>>)
        norminator ==
            ReduceSum(ElementWise(sequence_outputs, expand_input_mask, "PROD"), 1)
        denominator == ReduceSum(expand_input_mask, 1)
    IN  ElementWise(norminator, denominator, "DIV")

\* (sequence length, batch, hidden size) of the tensors fed
PoolShapes == {<<s, 1, 1>> : s \in 1..MaxSeq} \cup {<<2, 1, 2>>, <<1, 2, 1>>, <<2, 2, 1>>}

\* the encoders' output (S, batch, hidden, 1, 1) and the float mask
\* (S, batch) of one inference
Feeds ==
    UNION {{[sequence_outputs |-> [shape |-> <<d[1], d[2], d[3], 1, 1>>, data |-> v],
             input_mask |-> [shape |-> <<d[1], d[2]>>, data |-> k],
             mean_pooling_output |-> <<>>] :
               v \in [1..(d[1] * d[2] * d[3]) -> 1..MaxValue],
               k \in [1..(d[1] * d[2]) -> {0, 1}]} : d \in PoolShapes}

PoolInit ==
    /\ pc = "inference"
    /\ values \in Feeds
    /\ trt_api = "legacy"
    /\ argv = Argv(<<>>, NoFlags)
    /\ model_config = Uniform(1, 1)
    /\ ckpt = File(Uniform(1, 1), 1, {})
    /\ args = Argv(<<>>, NoFlags)
    /\ config_list = <<>>
    /\ weights_dict = <<>>
    /\ logged = <<>>
    /\ network = NoNetwork
    /\ profiles = <<>>
    /\ builder_flags = {}
    /\ global_submodel_id = 0
    /\ locals = NoLocals
    /\ error = NoError
    /\ engine = "unbound"
    /\ build_calls = 0
    /\ serialized_engine = "unbound"
    /\ output_file = "absent"
    /\ calib = NoCalib

\* lines 848-862 evaluated on the tensors fed
MeanPooling ==
    /\ pc = "inference"
    /\ values' = [values EXCEPT !.mean_pooling_output =
                     mean_pooling_output(values.sequence_outputs, values.input_mask)]
    /\ pc' = "inferred"
    /\ UNCHANGED <<trt_api, argv, model_config, ckpt, args, config_list, weights_dict,
                   logged, network, profiles, builder_flags, global_submodel_id, locals,
                   error, engine, build_calls, serialized_engine, output_file, calib>>

PoolNext == MeanPooling

PoolSpec == PoolInit /\ [][PoolNext]_vars

(***************************************************************************)
(* Properties.                                                             *)
(***************************************************************************)
\* the graph of the build has been assembled
Assembled == pc \in {"build", "with_engine", "write", "done"}

\* the largest of a non-empty list of integers
MaxOf(sizes) == CHOOSE b \in {sizes[i] : i \in 1..Len(sizes)} :
                    \A i \in 1..Len(sizes) : sizes[i] <= b

\* the registered profiles whose [min batch, max batch] range holds b
ProfilesHolding(b) ==
    {i \in 1..Len(profiles) :
        profiles[i]["input_ids"].min[2] <= b /\ b <= profiles[i]["input_ids"].max[2]}

\* C1: after a build with a non-empty list of target batch sizes and one or
\* more submodels, every batch size from 1 to the largest requested lies in
\* the [min batch, max batch] range of exactly one registered profile.
C1_EveryBatchInOneProfile ==
    (Assembled /\ argv.batch_size # <<>>)
        => \A b \in 1..MaxOf(args.batch_size) : Cardinality(ProfilesHolding(b)) = 1

StrictlyIncreasing(sizes) == \A i \in 1..(Len(sizes) - 1) : sizes[i] < sizes[i + 1]

\* the profile expected for the i-th of the batch sizes
ExpectedProfile(S, sizes, i) ==
    [name \in {"input_ids", "segment_ids", "input_mask", "input_mask_fp32"} |->
        [min |-> <<S, (IF i = 1 THEN 0 ELSE sizes[i - 1]) + 1>>,
         opt |-> <<S, sizes[i]>>, max |-> <<S, sizes[i]>>]]

\* C2: one invocation of the embedding block with k >= 2 strictly increasing
\* batch sizes b_1 < ... < b_k and sequence length S adds exactly k profiles,
\* the i-th with min (S, b_(i-1) + 1), opt (S, b_i), max (S, b_i) for each of
\* the four inputs, b_0 = 0.
C2_ProfileShapes ==
    [][(pc = "emb_layernorm" /\ pc' # "emb_layernorm"
        /\ Len(args.batch_size) >= 2 /\ StrictlyIncreasing(args.batch_size))
       => /\ Len(profiles') = Len(profiles) + Len(args.batch_size)
          /\ SubSeq(profiles', 1, Len(profiles)) = profiles
          /\ \A i \in 1..Len(args.batch_size) :
                profiles'[Len(profiles) + i]
                    = ExpectedProfile(SequenceLength, args.batch_size, i)]_vars

\* C2, witness: the first invocation for the batch sizes 1, 4, 8 has
\* registered (S,1)/(S,1)/(S,1), (S,2)/(S,4)/(S,4), (S,5)/(S,8)/(S,8)
C2_Witness ==
    /\ pc = "bert_model"
    /\ locals.model_id = 0
    /\ args.batch_size = <<1, 4, 8>>
    /\ Len(profiles) = 3
    /\ profiles[1]["input_mask_fp32"]
          = [min |-> <<128, 1>>, opt |-> <<128, 1>>, max |-> <<128, 1>>]
    /\ profiles[2]["input_ids"]
          = [min |-> <<128, 2>>, opt |-> <<128, 4>>, max |-> <<128, 4>>]
    /\ profiles[3]["segment_ids"]
          = [min |-> <<128, 5>>, opt |-> <<128, 8>>, max |-> <<128, 8>>]

\* main is past the call of load_ensemble_weights
Loaded == pc \notin {"main", "load_configs", "load_weights"}

\* the checkpoint lacks the key bias of some attention block whose query and
\* value biases it holds
KeyBiasDropped ==
    \E k \in ckpt.dropped :
        /\ Len(k) > 4
        /\ SubSeq(k, Len(k) - 3, Len(k)) = <<"attention", "self", "key", "bias">>

\* C3: loading a checkpoint in which an attention prefix has its query and
\* value biases but no key bias fails with MissingWeightError; the load
\* returns no weight map and no graph node is built.
C3_MissingKeyBiasFailsLoad ==
    (KeyBiasDropped /\ Loaded)
        => /\ pc = "failed"
           /\ error.exc = "MissingWeightError"
           /\ weights_dict = <<>>
           /\ network.layers = <<>>

\* the submodels whose hidden size is no multiple of their number of heads
NotDivisible ==
    {m \in 0..(Len(model_config) - 1) :
        model_config[m + 1].hidden_size % model_config[m + 1].num_attention_heads # 0}

\* C4: a build over a submodel whose hidden size is no multiple of its number
\* of attention heads fails with ShapeMismatchError, and at that point the
\* graph holds no node of that submodel.
C4_IndivisibleHiddenSizeFails ==
    (NotDivisible # {})
        => /\ ~Assembled
           /\ pc = "failed"
                => /\ error.exc = "ShapeMismatchError"
                   /\ \A i \in 1..Len(network.layers) :
                         network.layers[i].owner \notin NotDivisible

\* int8 is requested and the checkpoint is not declared to carry QAT ranges
NeedsCalibration == args.flags.int8 /\ ~args.flags.onnx

\* C5: when int8 is requested without QAT metadata, a complete calibration
\* build has been run through the backend by the time the main build starts,
\* and so before the main build adds its first graph node.
C5_CalibrationBuildFirst ==
    (NeedsCalibration /\ Loaded /\ pc # "build_engine" /\ network.layers = <<>>)
        => build_calls >= 1

\* C6: the output artifact is written only after weight loading, graph
\* assembly, backend compilation and serialization have all succeeded, and a
\* run in which one of them fails leaves nothing written.
C6_OutputOnlyAfterSuccess ==
    /\ output_file # "absent"
          => /\ pc = "done"
             /\ error = NoError
             /\ weights_dict # <<>>
             /\ network.outputs # <<>>
             /\ build_calls = 1
             /\ engine = "engine"
             /\ serialized_engine = "bytes"
             /\ output_file = serialized_engine
    /\ pc = "failed" => output_file = "absent"

\* the submodels a weight map was returned for
LoadedModels == {m \in 0..(Len(config_list) - 1) : ToString(m) \in DOMAIN weights_dict}

\* the attention prefixes of a weight map that hold a fused kernel
FusedPrefixes(d) ==
    {Slice(d[i].k, 1, Len(d[i].k) - 3) :
        i \in {j \in 1..Len(d) :
                  Len(d[j].k) > 3 /\ Slice(d[j].k, Len(d[j].k) - 2, Len(d[j].k)) = WQKV}}

\* the inverse of the permutation of the fusion: (N, 3, H, N, H) back to
\* (3, N, H, N, H), and (N, 3, H) back to (3, N, H)
UnfuseKernel(fused, N, H) ==
    TransposeAxes(Reshape(fused, <<N, 3, H, N, H>>), <<2, 1, 3, 4, 5>>).data

UnfuseBias(fused, N, H) ==
    TransposeAxes(Reshape(fused, <<N, 3, H>>), <<2, 1, 3>>).data

\* C7: for every Q, K, V kernel triple and bias triple of an attention block
\* with N heads of size H, the fused kernel and bias taken through the
\* inverse permutation are the three kernels and the three biases again.
C7_FusionRoundTrip ==
    pc = "build_engine"
        => \A m \in LoadedModels :
              LET d == weights_dict[ToString(m)]
                  N == config_list[m + 1].num_attention_heads
                  H == config_list[m + 1].head_size
              IN  \A prefix \in FusedPrefixes(d) :
                     /\ UnfuseKernel(DictGet(d, prefix \o WQKV), N, H)
                           = DictGet(d, prefix \o WQ).data
                             \o DictGet(d, prefix \o WK).data
                             \o DictGet(d, prefix \o WV).data
                     /\ UnfuseBias(DictGet(d, prefix \o BQKV), N, H)
                           = DictGet(d, prefix \o BQ).data
                             \o DictGet(d, prefix \o BK).data
                             \o DictGet(d, prefix \o BV).data

\* C7, witness: a loaded block of 2 heads of size 2 whose fused kernel is not
\* the plain concatenation of its three kernels
C7_Witness ==
    /\ pc = "build_engine"
    /\ 0 \in LoadedModels
    /\ config_list[1].num_attention_heads = 2
    /\ config_list[1].head_size = 2
    /\ <<"l0", "attention">> \in FusedPrefixes(weights_dict["0"])
    /\ DictGet(weights_dict["0"], <<"l0", "attention">> \o WQKV).data
          # DictGet(weights_dict["0"], <<"l0", "attention">> \o WQ).data
            \o DictGet(weights_dict["0"], <<"l0", "attention">> \o WK).data
            \o DictGet(weights_dict["0"], <<"l0", "attention">> \o WV).data

\* the keys of a weight map that name a kernel in canonical orientation
KernelKeys(d) ==
    {d[i].k : i \in {j \in 1..Len(d) :
                        /\ Contains(d[j].k, <<"kernel">>)
                        /\ d[j].k[Len(d[j].k)] # "notrans"}}

\* the number of columns of the canonical [out, in] matrix stored at key
KernelColumns(key, cfg) ==
    IF Contains(key, W_LOUT) /\ ~Contains(key, W_AOUT)
    THEN cfg.intermediate_size ELSE cfg.hidden_size

\* the transpose of the matrix of the given number of columns held in flat
MatrixTranspose(flat, columns) ==
    IF columns = 0 \/ Len(flat) % columns # 0 THEN <<>>
    ELSE NpTranspose([shape |-> <<Len(flat) \div columns, columns>>, data |-> flat]).data

\* C8: for every kernel of a loaded submodel, fused QKV kernel included, the
\* map holds the kernel in both orientations: the entry with the notrans
\* suffix is the matrix transpose of the canonical entry, and its transpose
\* is the canonical entry.
C8_BothOrientations ==
    pc = "build_engine"
        => \A m \in LoadedModels :
              LET d == weights_dict[ToString(m)]
              IN  \A key \in KernelKeys(d) :
                     LET columns == KernelColumns(key, model_config[m + 1])
                         canonical == DictGet(d, key).data
                     IN  /\ DictHas(d, key \o <<"notrans">>)
                         /\ DictGet(d, key \o <<"notrans">>).data
                               = MatrixTranspose(canonical, columns)
                         /\ MatrixTranspose(DictGet(d, key \o <<"notrans">>).data,
                                            Len(canonical) \div columns)
                               = canonical

\* C9: an int8 build without QAT metadata and without a calibration path
\* fails with CalibrationUnavailableError, and no graph is handed to the
\* backend.
C9_CalibrationUnavailable ==
    (NeedsCalibration /\ weights_dict # <<>> /\ pc \in {"failed", "done"})
        => /\ pc = "failed"
           /\ error.exc = "CalibrationUnavailableError"
           /\ build_calls = 0

SharedInputs == <<"input_ids", "segment_ids", "input_mask", "input_mask_fp32">>

\* the embedding nodes of the graph
EmbeddingNodes == {i \in 1..Len(network.layers) : network.layers[i].op = "embeddings"}

\* each of the four inputs is declared exactly once
DeclaredOnce ==
    \A k \in 1..4 :
        Cardinality({i \in 1..Len(network.inputs) :
                        network.inputs[i].name = SharedInputs[k]}) = 1

\* C10: in a build over M >= 1 submodels the four shared inputs (token ids,
\* segment ids, integer mask, float mask) are each declared exactly once,
\* and every submodel's embedding node consumes the same three of them:
\* token ids, segment ids and integer mask; no embedding node reads the
\* float mask.
C10_SharedInputsDeclaredOnce ==
    (network.inputs # <<>>)
        => /\ DeclaredOnce
           /\ \A i \in EmbeddingNodes :
                 network.layers[i].inputs = <<get_input(0), get_input(1), get_input(2)>>
           /\ Assembled
                 => {network.layers[i].owner : i \in EmbeddingNodes}
                       = 0..(Len(model_config) - 1)

\* C10, witness: the graph of two submodels, with two embedding nodes
C10_Witness ==
    /\ pc = "build"
    /\ Len(model_config) = 2
    /\ Cardinality(EmbeddingNodes) = 2
    /\ Len(network.inputs) = 4

\* C10 as stated: each embedding node consumes all four of the inputs
C10_EmbeddingReadsAllFour ==
    (network.inputs # <<>>)
        => /\ DeclaredOnce
           /\ \A i \in EmbeddingNodes :
                 \A k \in 0..3 :
                    \E j \in 1..Len(network.layers[i].inputs) :
                        network.layers[i].inputs[j] = get_input(k)

\* the node that marks one invocation of each block: the embedding plugin,
\* the attention plugin of a transformer layer, the slice of the pooler, the
\* concatenations and the division of the aggregator, the softmax of the
\* classifier
StageMarks ==
    {"embeddings", "qkv2ctx", "slice", "concatenation", "elementwise_DIV", "softmax"}

IsStageMark(layer) == layer.op \in StageMarks

\* the blocks invoked so far, in the order of their nodes in the graph
StagesInvoked ==
    LET marks == SelectSeq(network.layers, IsStageMark)
    IN  Tuple([i \in 1..Len(marks) |-> marks[i].op])

RECURSIVE SubmodelStages(_)
\* embedding, num_hidden_layers transformer layers and pooler of submodels
\* m, m+1, ...
SubmodelStages(m) ==
    IF m >= Len(model_config) THEN <<>>
    ELSE <<"embeddings">>
         \o [l \in 1..model_config[m + 1].num_hidden_layers |-> "qkv2ctx"]
         \o <<"slice">>
         \o SubmodelStages(m + 1)

\* the stage order of a build: every submodel, then the aggregator (its two
\* concatenations and its mean pooling), then the classifier
StagesExpected ==
    SubmodelStages(0) \o <<"concatenation", "concatenation", "elementwise_DIV", "softmax">>

IsPrefix(a, b) == Len(a) <= Len(b) /\ SubSeq(b, 1, Len(a)) = a

\* C11: in a build over M submodels the blocks are invoked in this order:
\* for each submodel the embedding block once, the transformer layer
\* num_hidden_layers times and the pooler once; then the aggregator once,
\* after all submodels; then the classifier; and the backend is called
\* exactly once, after the aggregator and the classifier.
C11_StageOrder ==
    /\ IsPrefix(StagesInvoked, StagesExpected)
    /\ build_calls <= 1
    /\ (Assembled \/ build_calls = 1) => StagesInvoked = StagesExpected
    /\ pc \in {"with_engine", "write", "done"} => build_calls = 1

\* C11, witness: the finished build of two submodels of two layers each
C11_Witness ==
    /\ pc = "done"
    /\ build_calls = 1
    /\ Len(model_config) = 2
    /\ model_config[1].num_hidden_layers = 2
    /\ model_config[2].num_hidden_layers = 2
    /\ Len(StagesInvoked) = 12

Occurs(seq, x) == Cardinality({i \in 1..Len(seq) : seq[i] = x})

\* C11, as stated: the embedding block is invoked once in the whole build,
\* and the aggregator's concatenation is applied once.
C11_EmbeddingOnce ==
    Assembled =>
        /\ StagesInvoked = StagesExpected
        /\ Occurs(StagesInvoked, "embeddings") = 1
        /\ build_calls <= 1

\* the checkpoint holds one anomalous entry besides the complete ensemble
OneAnomalousEntry == Len(ckpt.extra) = 1 /\ ckpt.dropped = {}

\* C12: an entry of the checkpoint whose name cannot be normalized is
\* skipped and the load goes on: the load completes and the weight map is
\* the one of the entries that normalize, i.e. the map the same checkpoint
\* gives without the anomalous entry.
C12_AnomalousEntrySkipped ==
    (Loaded /\ OneAnomalousEntry) =>
        /\ ~(pc = "failed" /\ network = NoNetwork)
        /\ weights_dict =
              load_ensemble_weights(Checkpoint(ckpt.cfgs, ckpt.seed, {}),
                                    config_list).dict

AllOnes(mask) == \A i \in 1..Len(mask.data) : mask.data[i] = 1

\* the sum of the hidden values over the sequence axis at batch b, hidden h
SequenceTotal(x, b, h) ==
    LET At(s) == x.data[Ravel(<<s, b, h, 0, 0>>, x.shape) + 1]
        RECURSIVE Total(_)
        Total(s) == IF s >= x.shape[1] THEN 0 ELSE At(s) + Total(s + 1)
    IN  Total(0)

\* C13: for every sequence of hidden values, of any batch, with a mask that
\* is all ones the masked mean pooling (product with the broadcast mask,
\* summed over the sequence axis, divided by the mask's sum over the same
\* axis) is the unweighted average of the hidden values over the sequence
\* axis: it has one quotient per batch entry and hidden position, and the
\* quotient num/den equals total/S.
C13_AllOnesMaskIsAverage ==
    (pc = "inferred" /\ AllOnes(values.input_mask)) =>
        LET x == values.sequence_outputs
            y == values.mean_pooling_output
        IN  /\ y.shape = <<1, x.shape[2], x.shape[3], 1, 1>>
            /\ \A b \in 0..(x.shape[2] - 1), h \in 0..(x.shape[3] - 1) :
                  LET q == y.data[Ravel(<<0, b, h, 0, 0>>, y.shape) + 1]
                  IN  /\ q.den # 0
                      /\ q.num * x.shape[1] = SequenceTotal(x, b, h) * q.den

\* the dynamic ranges set on output out of the node
RangesOf(layer, out) == {i \in 1..Len(layer.ranges) : layer.ranges[i].out = out}

\* an ensemble of two submodels is being built with quantization-aware
\* int8 weights
QuantizedEnsemble ==
    /\ Len(config_list) = 2
    /\ \A i \in 1..2 : config_list[i].use_qat /\ config_list[i].use_int8

\* C14: under every combination of precision flags, any number of layers
\* and submodels, no node output has its dynamic range set more than once.
C14_RangeSetAtMostOnce ==
    \A i \in 1..Len(network.layers) :
        \A out \in {0, 1} : Cardinality(RangesOf(network.layers[i], out)) <= 1

\* C14, witness: a finished quantization-aware int8 graph of two submodels,
\* the second embedding node with a range on its output 1 (set by the
\* embedding block) and on its output 0 (set by the first transformer layer)
C14_Witness ==
    /\ pc = "build"
    /\ QuantizedEnsemble
    /\ \E i \in 1..Len(network.layers) :
          /\ network.layers[i].op = "embeddings"
          /\ network.layers[i].owner = 1
          /\ Cardinality(RangesOf(network.layers[i], 0)) = 1
          /\ Cardinality(RangesOf(network.layers[i], 1)) = 1

\* the numbers n such that nodes n+1 .. n+20 are one whole transformer layer
\* (its attention plugin is node n+2)
TransformerLayers ==
    {a - 2 : a \in {i \in 1..Len(network.layers) :
                       /\ network.layers[i].op = "qkv2ctx"
                       /\ i + 18 <= Len(network.layers)}}

Node(i) == network.layers[i]

\* the node was given the weight named w of its layer, in either orientation
UsesWeight(i, w) ==
    \E j \in 1..Len(Node(i).weights) :
        Tail(Node(i).weights[j]) \in {w, w \o <<"notrans">>}

\* the wiring of the transformer layer at nodes n+1 .. n+20, entered by the
\* tensor x
Wired(n, x) ==
    \* attention: the fused projection of x, then the attention plugin
    /\ Node(n + 1).inputs = <<x>>
    /\ Node(n + 2).op = "qkv2ctx"
    /\ Node(n + 2).inputs[1] = Tensor(n + 1, 0)
    \* output dense projection of the attention
    /\ Node(n + 3).op \in {"convolution", "fcplugin"}
    /\ Node(n + 3).inputs = <<Tensor(n + 2, 0)>>
    /\ UsesWeight(n + 3, W_AOUT)
    \* first SkipLayerNorm, skip = the tensor that entered the attention
    /\ Node(n + 4).op = "skipln"
    /\ Node(n + 4).inputs = <<Tensor(n + 3, 0), x>>
    \* first dense and GELU
    /\ Node(n + 5).op \in {"convolution", "fully_connected"}
    /\ Node(n + 5).inputs = <<Tensor(n + 4, 0)>>
    /\ UsesWeight(n + 5, W_MID)
    /\ Node(n + 11).inputs[1] = Tensor(n + 5, 0)
    /\ Node(n + 15).op = "activation_TANH"
    /\ Node(n + 18).inputs = <<Tensor(n + 17, 0), Tensor(n + 5, 0)>>
    \* second output dense projection
    /\ Node(n + 19).op \in {"convolution", "fcplugin"}
    /\ Node(n + 19).inputs = <<Tensor(n + 18, 0)>>
    /\ UsesWeight(n + 19, W_LOUT)
    \* second SkipLayerNorm, skip = the output of the first
    /\ Node(n + 20).op = "skipln"
    /\ Node(n + 20).inputs = <<Tensor(n + 19, 0), Tensor(n + 4, 0)>>
    \* the result is the second SkipLayerNorm's output: the node that follows
    \* (the next layer's projection or the pooler's slice) reads it
    /\ n + 21 <= Len(network.layers) => Node(n + 21).inputs[1] = Tensor(n + 20, 0)

\* C15: for every flag combination a transformer layer is wired attention ->
\* output dense projection -> first SkipLayerNorm (skip input: the tensor
\* that entered the attention) -> first dense + GELU -> second output dense
\* projection -> second SkipLayerNorm (skip input: the first
\* SkipLayerNorm's output), whose output is the layer's result.
C15_TransformerWiring ==
    /\ \A n \in TransformerLayers :
          /\ Node(n).op \in {"embeddings", "skipln"}
          /\ Wired(n, Tensor(n, 0))
    /\ (pc = "bert_model" /\ locals.layer > 0) =>
          /\ Len(network.layers) - 20 \in TransformerLayers
          /\ locals.prev_input = Tensor(Len(network.layers), 0)

\* C15, witness: a finished graph with four transformer layers, built with
\* int8 convolutions and quantization-aware ranges
C15_Witness ==
    /\ pc = "build"
    /\ QuantizedEnsemble
    /\ ~config_list[1].use_fc2_gemm
    /\ Cardinality(TransformerLayers) = 4
    /\ \E n \in TransformerLayers : Node(n).op = "skipln" /\ Node(n + 19).op = "convolution"

\* the tensor is a graph input, or an output of a node before node i
ExistsBefore(tensor, i) ==
    IF tensor.layer = 0 THEN tensor.out < Len(network.inputs)
    ELSE tensor.layer >= 1 /\ tensor.layer < i

InputsExist ==
    \A i \in 1..Len(network.layers) :
        \A j \in 1..Len(Node(i).inputs) : ExistsBefore(Node(i).inputs[j], i)

\* nodes and graph inputs are only appended: every node keeps its place,
\* its operation and its inputs
AppendOnly ==
    /\ Len(network'.layers) >= Len(network.layers)
    /\ \A i \in 1..Len(network.layers) :
          /\ network'.layers[i].op = Node(i).op
          /\ network'.layers[i].inputs = Node(i).inputs
    /\ Len(network'.inputs) >= Len(network.inputs)

\* C16: every node appended during a build takes as inputs only graph
\* inputs or outputs of nodes appended earlier in the same build; at no
\* point does the graph hold a node one of whose inputs does not yet exist.
C16_TopologicalOrder == [](InputsExist) /\ [][AppendOnly]_vars

\* C16, witness: a finished graph of two submodels, whose second embedding
\* node reads graph inputs declared by the first submodel and whose
\* aggregator reads nodes of both submodels
C16_Witness ==
    /\ pc = "build"
    /\ Len(config_list) = 2
    /\ Len(network.inputs) = 4
    /\ \E i \in 1..Len(network.layers) :
          /\ Node(i).op = "embeddings" /\ Node(i).owner = 1
          /\ Node(i).inputs = <<get_input(0), get_input(1), get_input(2)>>
    /\ \E i \in 1..Len(network.layers) :
          /\ Node(i).op = "concatenation"
          /\ Node(Node(i).inputs[1].layer).owner = 0
          /\ Node(Node(i).inputs[2].layer).owner = 1

\* C17: whenever generate_calibration_cache ends (returned early, completed
\* the nested build, or the nested build raised), use_fp16 and
\* is_calib_mode of the configuration hold the values they had before the
\* call.
C17_FlagsRestored ==
    calib.at \in {"returned", "raised"} =>
        /\ calib.config.use_fp16 = calib.called_with.use_fp16
        /\ calib.config.is_calib_mode = calib.called_with.is_calib_mode

\* the names given so far: the tensor named, the name as a string, and the
\* name's first field
NamesIn(layers) ==
    UNION {{[layer |-> i, out |-> layers[i].names[j].out,
             name |-> Join(layers[i].names[j].name),
             id |-> layers[i].names[j].name[1]] : j \in 1..Len(layers[i].names)} :
           i \in 1..Len(layers)}

\* no two named node outputs share a name, no two graph inputs do, and no
\* node output has the name of a graph input
NamesDistinct ==
    /\ \A a, b \in NamesIn(network.layers) : a.name = b.name => a = b
    /\ \A i, j \in 1..Len(network.inputs) :
          network.inputs[i].name = network.inputs[j].name => i = j
    /\ \A a \in NamesIn(network.layers) :
          \A i \in 1..Len(network.inputs) : a.name # network.inputs[i].name

\* the names a step of the build of submodel locals.model_id gives carry
\* that submodel's id
NewNamesCarryId ==
    pc \in {"emb_layernorm", "bert_model", "pooler_layer"} =>
        \A a \in NamesIn(network'.layers) \ NamesIn(network.layers) :
            a.id = ToString(locals.model_id)

\* C18: all tensor names given during one build over M submodels and any
\* number of layers are pairwise distinct, and every named tensor created
\* while building submodel m carries the prefix of submodel m's id.
C18_NamesDistinctAndPrefixed == [](NamesDistinct) /\ [][NewNamesCarryId]_vars

\* C18, witness: the finished graph of two submodels of two layers holds 23
\* names: per submodel the embedding output and five tensors per layer,
\* and the classifier score
C18_Witness ==
    /\ pc = "build"
    /\ Len(config_list) = 2
    /\ Cardinality(NamesIn(network.layers)) = 23
    /\ Cardinality({a \in NamesIn(network.layers) : a.id = "0"}) = 11
    /\ \E a \in NamesIn(network.layers) : a.name = "1_l1_output_reshape"

SkipLayerNorms == {i \in 1..Len(network.layers) : Node(i).op = "skipln"}

\* the configuration of the submodel the node belongs to
ConfigOf(i) == config_list[Node(i).owner + 1]

\* C19: the SkipLayerNorm node's precision is int8 (2) exactly when use_int8
\* and use_int8_skipln are set and the build is not in calibration mode;
\* otherwise fp16 (1) when use_fp16 is set and fp32 (0) when not.  It does
\* not depend on use_int8_multihead: with use_int8 set and use_int8_skipln
\* clear it is never int8.
C19_SkipLayerNormPrecision ==
    \A i \in SkipLayerNorms :
        LET config == ConfigOf(i)
            int8 == config.use_int8 /\ config.use_int8_skipln /\ ~config.is_calib_mode
        IN  /\ Node(i).type_id = 2 <=> int8
            /\ ~int8 => Node(i).type_id = IF config.use_fp16 THEN 1 ELSE 0
            /\ (config.use_int8 /\ ~config.use_int8_skipln) => Node(i).type_id # 2

\* C19, witness: an int8 SkipLayerNorm in a finished graph whose attention
\* plugin is fp16
C19_Witness ==
    /\ pc = "build"
    /\ config_list[1].use_int8 /\ config_list[1].use_int8_skipln
    /\ ~config_list[1].use_int8_multihead /\ config_list[1].use_fp16
    /\ \E i \in SkipLayerNorms : Node(i).type_id = 2
    /\ \E i \in 1..Len(network.layers) : Node(i).op = "qkv2ctx" /\ Node(i).type_id = 1

\* the amax scalar the weight map of the node's submodel holds under the
\* name key of the node's layer (the layer prefix is the first field of
\* the names of the weights of the layer's intermediate dense node)
LayerAmax(n, key) ==
    ScalarOf(weights_dict[ToString(Node(n + 18).owner)],
             <<Node(n + 5).weights[1][1]>> \o key)

\* C20: for the GELU output of every transformer layer: with int8 on and no
\* quantization-aware metadata its dynamic range is set to [-10, 10]; with
\* int8 on and metadata it is set to the layer's output_dense_input amax;
\* with int8 off no dynamic range is set on it.
C20_GeluRange ==
    \A n \in TransformerLayers :
        LET config == ConfigOf(n + 18)
            gelu == Node(n + 18)
        IN  /\ gelu.op = "elementwise_PROD"
            /\ (config.use_int8 /\ ~config.use_qat) =>
                  gelu.ranges = <<[out |-> 0, maxval |-> 10]>>
            /\ (config.use_int8 /\ config.use_qat) =>
                  gelu.ranges = <<[out |-> 0, maxval |-> LayerAmax(n, OUT_DENSE_IN_AMAX)]>>
            /\ ~config.use_int8 => gelu.ranges = <<>>

\* C20, witness: a finished quantization-aware int8 graph of two submodels
\* whose last GELU output has the range of l1_output_dense_input_amax
C20_Witness ==
    /\ pc = "build"
    /\ QuantizedEnsemble
    /\ \E n \in TransformerLayers :
          /\ Node(n + 18).owner = 1
          /\ Node(n + 5).weights[1][1] = "l1"
          /\ Node(n + 18).ranges = <<[out |-> 0, maxval |-> AmaxValue(1, 11, FALSE)]>>

\* the nodes read by the nodes of the set (0 stands for the graph inputs)
ReadBy(set) ==
    UNION {{Node(i).inputs[j].layer : j \in 1..Len(Node(i).inputs)} : i \in set \ {0}}

RECURSIVE Upstream(_)
\* the set with every node some node of it reads, directly or not
Upstream(set) ==
    LET next == set \cup ReadBy(set)
    IN  IF next = set THEN set ELSE Upstream(next)

\* the nodes on a path to a graph output
OnOutputPath == Upstream({network.outputs[k].layer : k \in 1..Len(network.outputs)})

\* node i is the pooler activation of submodel m: a TANH over the dense
\* node that holds the pooler weights
IsPooledOutput(i, m) ==
    /\ i \in 2..Len(network.layers)
    /\ Node(i).op = "activation_TANH"
    /\ Node(i).owner = m
    /\ Node(i).inputs = <<Tensor(i - 1, 0)>>
    /\ Node(i - 1).weights = <<POOLER_W, POOLER_B>>

\* node c is the classifier head's dense node
IsClassifier(c) ==
    Node(c).op = "fully_connected" /\ Node(c).weights = <<CLASSIFIER_W, CLASSIFIER_B>>

\* node p concatenates the pooled outputs of the submodels 0 .. M-1, in
\* that order
ConcatenatesPooled(p) ==
    /\ p \in 1..Len(network.layers)
    /\ Node(p).op = "concatenation"
    /\ Len(Node(p).inputs) = Len(config_list)
    /\ \A m \in 1..Len(config_list) :
          /\ Node(p).inputs[m].out = 0
          /\ IsPooledOutput(Node(p).inputs[m].layer, m - 1)

\* the masked mean's nodes: the division and everything only it reads
MeanPoolingNodes ==
    {i \in 1..Len(network.layers) :
        Node(i).op \in {"elementwise_DIV", "reduce_SUM"}
        \/ (Node(i).op = "shuffle" /\ Node(i).inputs = <<get_input(3)>>)
        \/ (Node(i).op = "elementwise_PROD" /\ Node(i).inputs[2].layer # 0
            /\ Node(Node(i).inputs[2].layer).inputs = <<get_input(3)>>)}

\* C21: once the graph has its output, the classifier head's dense node reads
\* exactly the concatenation of the per-submodel pooled outputs in submodel
\* order 0..M-1, that concatenation is on the path to the graph output, and
\* the five masked-mean-pooling nodes are in the graph but none of them is
\* on a path to the graph output.
C21_ClassifierReadsPooledConcat ==
    network.outputs # <<>> =>
        /\ \E c \in 1..Len(network.layers) : IsClassifier(c)
        /\ \A c \in 1..Len(network.layers) :
              IsClassifier(c) =>
                 /\ c \in OnOutputPath
                 /\ Len(Node(c).inputs) = 1
                 /\ Node(c).inputs[1].out = 0
                 /\ ConcatenatesPooled(Node(c).inputs[1].layer)
        /\ Cardinality(MeanPoolingNodes) = 5
        /\ MeanPoolingNodes \cap OnOutputPath = {}

\* C21, witness: the finished graph of an ensemble of two submodels, the
\* classifier reading a concatenation of two pooler activations, the
\* division of the masked mean present
C21_Witness ==
    /\ pc = "build"
    /\ Len(config_list) = 2
    /\ network.outputs # <<>>
    /\ \E c \in 1..Len(network.layers) :
          /\ IsClassifier(c)
          /\ ConcatenatesPooled(Node(c).inputs[1].layer)
          /\ Node(Node(c).inputs[1].layer).inputs[1] # Node(Node(c).inputs[1].layer).inputs[2]
    /\ \E d \in MeanPoolingNodes : Node(d).op = "elementwise_DIV"

\* the whole transformer layers of submodel m
LayersOf(m) == {n \in TransformerLayers : Node(n + 2).owner = m}

\* the number of transformer layers of its submodel built before the one at
\* nodes n+1 .. n+20
BuiltBefore(n) == Cardinality({k \in LayersOf(Node(n + 2).owner) : k < n})

\* the tensor bert_model returned for submodel m: the output of the layer
\* built last
LastLayerOutput(m) ==
    Tensor(20 + CHOOSE n \in LayersOf(m) : \A k \in LayersOf(m) : k <= n, 0)

\* submodel m has all its layers
Complete(m) == Cardinality(LayersOf(m)) = config_list[m + 1].num_hidden_layers

\* the pooler slices, and the concatenation of the sequence outputs (the one
\* the masked product reads)
Slices == {i \in 1..Len(network.layers) : Node(i).op = "slice"}

SequenceConcatenations ==
    {Node(i).inputs[1].layer : i \in {j \in 1..Len(network.layers) :
                                         Node(j).op = "elementwise_PROD"
                                         /\ Node(Node(j).inputs[1].layer).op = "concatenation"}}

\* C22: within one submodel the k-th transformer layer built carries the
\* index k-1 (l0, l1, ...) and there are never more than num_hidden_layers
\* of them; the layer of index 0 reads output 0 of the submodel's embedding
\* node and the layer of index l+1 reads output 0 of the last node of the
\* layer of index l; the pooler's slice and the submodel's input of the
\* sequence-output concatenation read the output of the layer of index
\* num_hidden_layers-1.
C22_LayersThreadedInOrder ==
    /\ \A n \in TransformerLayers :
          LET m == Node(n + 2).owner
              l == BuiltBefore(n)
          IN  /\ Node(n + 5).weights[1][1] = LayerPrefix(ToString(l))
              /\ l < config_list[m + 1].num_hidden_layers
              /\ Node(n + 1).inputs = <<Tensor(n, 0)>>
              /\ Node(n).owner = m
              /\ IF l = 0 THEN Node(n).op = "embeddings"
                 ELSE n - 20 \in LayersOf(m) /\ BuiltBefore(n - 20) = l - 1
    /\ \A s \in Slices :
          /\ Complete(Node(s).owner)
          /\ Node(s).inputs = <<LastLayerOutput(Node(s).owner)>>
    /\ \A q \in SequenceConcatenations :
          /\ Len(Node(q).inputs) = Len(config_list)
          /\ \A m \in 1..Len(config_list) :
                Complete(m - 1) /\ Node(q).inputs[m] = LastLayerOutput(m - 1)

\* C22, witness: a finished graph of two submodels, the first of one layer
\* and the second of two, with the second layer of the second submodel
\* reading the first and feeding the pooler and the concatenation
C22_Witness ==
    /\ pc = "build"
    /\ Len(config_list) = 2
    /\ config_list[1].num_hidden_layers = 1
    /\ config_list[2].num_hidden_layers = 2
    /\ Cardinality(SequenceConcatenations) = 1
    /\ \E n \in LayersOf(1) :
          /\ BuiltBefore(n) = 1
          /\ Node(n + 5).weights[1][1] = "l1"
          /\ \E s \in Slices : Node(s).inputs = <<Tensor(n + 20, 0)>>
          /\ \E q \in SequenceConcatenations : Node(q).inputs[2] = Tensor(n + 20, 0)

\* the profile's batch range of the input name is not empty
Ordered(profile, name) ==
    /\ profile[name].min[2] <= profile[name].opt[2]
    /\ profile[name].opt[2] <= profile[name].max[2]

\* C23: for every list of two or more target batch sizes given with -b (any
\* order, repeated values allowed) every optimization profile registered by
\* the build has min batch <= opt batch <= max batch for each of the four
\* inputs.
C23_ProfilesNonEmpty ==
    Len(args.batch_size) >= 2 =>
        \A i \in 1..Len(profiles) :
            \A name \in {"input_ids", "segment_ids", "input_mask", "input_mask_fp32"} :
                Ordered(profiles[i], name)

====
